---- MODULE Spec2Model ----
(***************************************************************************)
(* Caching and incremental-indexing core of project-mind-mcp.              *)
(*                                                                         *)
(*   incremental_indexing.py : atomic_write (SpecAW), IndexMetadata        *)
(*                             (SpecMeta, SpecChanged)                     *)
(*   cache_manager.py        : LRUCache, TTLCache, called one at a time    *)
(*                             (SpecLRU, SpecTTL) and from several threads *)
(*                             statement by statement (SpecThreads);       *)
(*                             FileCache (SpecFC)                          *)
(*   memory_limited_indexer.py : MemoryLimitedIndexer (SpecMLI)            *)
(*                                                                         *)
(* Each component has its own specification over the shared variable       *)
(* tuple; the variables of the other components stay at their initial      *)
(* values.                                                                 *)
(***************************************************************************)
EXTENDS Integers, Sequences, FiniteSets, TLC

VARIABLES
    platform,   \* sys.platform of the build: "posix" or "win32"
    fs,         \* the target directory: file name -> content, or Absent
    initial,    \* content of the target before the first call (Absent: none)
    awpc,       \* per writer: position inside atomic_write
    lruCapacity, \* LRUCache.capacity
    lruCache,    \* LRUCache.cache: OrderedDict as a sequence of <<key, value>>
    lruHits,     \* LRUCache.hits
    lruMisses,   \* LRUCache.misses
    lruLast,     \* the last LRUCache call: [op, key, val, ret]
    lruTouch,    \* history: keys in the order of their latest get hit or put
    ttlSeconds,     \* TTLCache.ttl_seconds
    ttlMaxSize,     \* TTLCache.max_size
    ttlCache,       \* TTLCache.cache: dict as a sequence of <<key, <<value, timestamp>>>>
    ttlHits,        \* TTLCache.hits
    ttlMisses,      \* TTLCache.misses
    ttlExpirations, \* TTLCache.expirations
    now,            \* the value time.time() returns
    ttlLast,        \* the last TTLCache call: [op, key, val, ret]
    ttlPutAt,       \* history: per stored key, the clock at its latest put
    kind,        \* the cache the threads share: "lru" or "ttl"
    lock,        \* self.lock of that cache: the holding thread, 0 when free
    thr,         \* per thread: position in its call, arguments and locals
    opsStarted,  \* calls started so far
    lastHolder,  \* history: the thread whose call finished last
    ref,         \* history: the cache after applying the finished calls one by one
    retsOk,      \* history: every finished call returned what its one-by-one run returns
    diskMtime,   \* the files on disk: path -> st_mtime, or StatFails when stat() raises
    fcMtime,     \* FileCache.mtime_cache: path -> recorded mtime, or NoMtime
    fcLast,      \* the last FileCache call: [op, key, ret, raised]
    fcPut,       \* history: per path, <<mtime, content>> of the latest put that stored
    mdMeta,      \* IndexMetadata.metadata: dict as a sequence of <<path, <<mtime, indexed_at>>>>
    mdFile,      \* the text of index_metadata.json, or Absent
    mdLast,      \* the last IndexMetadata call: [op, arg, ret, raised]
    mli,         \* the MemoryLimitedIndexer object: its fields
    sinkLog,     \* history: the batch_callback calls, each [documents, metadatas, ids,
                 \* raised, auto]; auto: called by the flush inside add_chunk
    mliLast,     \* the last MemoryLimitedIndexer call: [op, raised, size, called]
    mliAdds,     \* history: add_chunk calls made so far
    env,         \* os.environ: variable name -> its text, or NoEnv
    cfgLast,     \* the last config call: [op, ret, raised]
    run,         \* the index run of a CodebaseIndexer: phase, locals, result
    upserts,     \* history: the VectorStoreManager.upsert calls, each [ids, ok]
    lruLock,     \* LRUCache.lock of the cache inside a FileCache: 0 when free, else
                 \* the thread that holds it
    vs           \* the VectorStoreManager object: its collection and its last call

awVars == <<platform, fs, initial, awpc>>

lruVars == <<lruCapacity, lruCache, lruHits, lruMisses, lruLast, lruTouch>>

ttlVars == <<ttlSeconds, ttlMaxSize, ttlCache, ttlHits, ttlMisses, ttlExpirations,
             now, ttlLast, ttlPutAt>>

thVars == <<kind, lock, thr, opsStarted, lastHolder, ref, retsOk>>

fcVars == <<fcMtime, fcLast, fcPut>>

mdVars == <<mdMeta, mdFile, mdLast>>

mliVars == <<mli, sinkLog, mliLast, mliAdds>>

cfgVars == <<env, cfgLast>>

runVars == <<run, upserts>>

storeVars == <<lruLock, vs>>

\* configuration, index runs, the file cache's inner lock and the vector store
extVars == <<cfgVars, runVars, storeVars>>

\* the file cache, the index metadata and the batcher, with the files they stat
fileVars == <<diskMtime, fcVars, mdVars, mliVars, extVars>>

vars == <<awVars, lruVars, ttlVars, thVars, fileVars>>

(***************************************************************************)
(* Bounds                                                                  *)
(***************************************************************************)
MaxWriters == 2      \* concurrent callers of atomic_write
ContentLen == 2      \* blocks per written content

MaxKeys == 3         \* distinct cache keys
MaxCapacity == 2     \* largest LRUCache capacity constructed
MaxGets == 1         \* get calls counted per cache (caps hits + misses)
MaxTtl == 1          \* largest TTLCache ttl_seconds constructed
MaxTime == 2         \* last clock value
MaxExpirations == 2  \* caps TTLCache.expirations
MaxThreads == 2      \* threads sharing one cache
MaxOps == 3          \* calls the threads start in total
MaxAdds == 3         \* add_chunk calls on one MemoryLimitedIndexer

Writers == 1..MaxWriters
Keys == 1..MaxKeys
Threads == 1..MaxThreads
Values == {"v1", "v2"}
None == "None"
\* the keys the threads of SpecThreads pass
ThreadKeys == {1, 2}
\* the max_size arguments a TTLCache is constructed with
MaxSizeChoices == {0, 1, 2}
\* the paths handed to FileCache and IndexMetadata
FilePaths == {1, 2}
\* st_mtime values of the files; 0 is the epoch
Mtimes == {0, 1, 2}
\* file_path.stat() raises
StatFails == -2
\* dict.get(key) returns None
NoMtime == -1

(***************************************************************************)
(* atomic_write (incremental_indexing.py:42-79)                            *)
(***************************************************************************)
\* A name that is not in the directory maps to Absent, a value that no write
\* produces (contents are sequences of blocks >= 0).
Absent == <<-1>>
\* file_path, as a (kind, owner) name like the temporary names
Target == <<"target", 0>>

\* tempfile.mkstemp(dir=parent, prefix=".name.", suffix=".tmp"): a name that
\* no other call holds.
TempPath(w) == <<"tmp", w>>

FileNames == {Target} \cup {TempPath(w) : w \in Writers}

\* The content string passed by writer w, as ContentLen blocks tagged with
\* the writer; the pre-existing file holds blocks tagged 0.
Content(w) == [i \in 1..ContentLen |-> w]
OldContent == Content(0)

Prefixes(c) == {SubSeq(c, 1, n) : n \in 0..Len(c)}

TempFiles(dir) == {n \in FileNames : n # Target /\ dir[n] # Absent}

\* a copy in place of the rename: src keeps its name
OsReplaceCopy(dir, src, dst) == [dir EXCEPT ![dst] = dir[src]]

\* os.replace(src, dst): one indivisible step that makes dst hold src's
\* content and removes the name src.
OsReplace(dir, src, dst) == [dir EXCEPT ![dst] = dir[src], ![src] = Absent]

\* os.unlink(name) / Path.unlink()
OsUnlink(dir, name) == [dir EXCEPT ![name] = Absent]

\* The state of the components a specification does not exercise.
LRUIdle ==
    /\ lruCapacity = 0
    /\ lruCache = <<>>
    /\ lruHits = 0
    /\ lruMisses = 0
    /\ lruLast = [op |-> "init", key |-> 0, val |-> None, ret |-> None]
    /\ lruTouch = <<>>

TTLIdle ==
    /\ ttlSeconds = 0
    /\ ttlMaxSize = 0
    /\ ttlCache = <<>>
    /\ ttlHits = 0
    /\ ttlMisses = 0
    /\ ttlExpirations = 0
    /\ now = 0
    /\ ttlLast = [op |-> "init", key |-> 0, val |-> None, ret |-> None]
    /\ ttlPutAt = [k \in Keys |-> -1]

IdleThread == [pc |-> "idle", key |-> 0, val |-> None, tmp |-> 0, clk |-> 0,
               todo |-> <<>>, cnt |-> 0]

ThreadsIdle ==
    /\ kind = "none"
    /\ lock = 0
    /\ thr = [t \in Threads |-> IdleThread]
    /\ opsStarted = 0
    /\ lastHolder = 0
    /\ ref = [cache |-> <<>>, hits |-> 0, misses |-> 0, expirations |-> 0]
    /\ retsOk = TRUE

FCIdle ==
    /\ fcMtime = [p \in FilePaths |-> NoMtime]
    /\ fcLast = [op |-> "init", key |-> 0, ret |-> None, raised |-> FALSE]
    /\ fcPut = [p \in FilePaths |-> <<NoMtime, None>>]

MDIdle ==
    /\ mdMeta = <<>>
    /\ mdFile = Absent
    /\ mdLast = [op |-> "init", arg |-> <<>>, ret |-> <<>>, raised |-> FALSE]

MLIIdle ==
    /\ mli = [max_memory_bytes |-> 0, documents |-> <<>>, metadatas |-> <<>>,
              ids |-> <<>>, current_memory |-> 0, total_chunks |-> 0,
              total_batches |-> 0]
    /\ sinkLog = <<>>
    /\ mliLast = [op |-> "init", raised |-> FALSE, size |-> 0, called |-> FALSE]
    /\ mliAdds = 0

\* the variables read by config.py
EnvNames == {"PROJECTMIND_MAX_FILE_SIZE_MB", "PROJECTMIND_MAX_MEMORY_MB"}
\* os.getenv(name) returns None
NoEnv == <<"None">>

CfgIdle ==
    /\ env = [n \in EnvNames |-> NoEnv]
    /\ cfgLast = [op |-> "init", ret |-> 0, raised |-> FALSE]

\* no index run has been started
NoRun == [phase |-> "idle", kind |-> "none", all_files |-> <<>>, changed |-> <<>>,
          todo |-> <<>>, cur |-> 0, chunks |-> <<>>, chunk_index |-> 0,
          file_count |-> 0, result |-> "none", phases |-> <<>>, steps |-> <<>>,
          tail |-> <<>>, read |-> {}, skipped |-> {}, retry |-> {},
          before |-> <<>>, beforeFile |-> Absent, runs |-> 0,
          readAt |-> <<>>, clean |-> FALSE, prevOk |-> {}]

RunIdle ==
    /\ run = NoRun
    /\ upserts = <<>>

\* no query has been made, nothing is stored, and no thread is inside the file cache
NoStore == [collection |-> {}, last |-> [op |-> "init", hit |-> FALSE, ret |-> "None"]]

StoreIdle ==
    /\ lruLock = 0
    /\ vs = NoStore

FilesIdle ==
    /\ diskMtime = [p \in FilePaths |-> StatFails]
    /\ FCIdle
    /\ MDIdle
    /\ MLIIdle
    /\ CfgIdle
    /\ RunIdle
    /\ StoreIdle

InitAW ==
    /\ FilesIdle
    /\ LRUIdle
    /\ TTLIdle
    /\ ThreadsIdle
    /\ platform \in {"posix", "win32"}
    /\ initial \in {Absent, OldContent}
    /\ fs = [n \in FileNames |-> IF n = Target THEN initial ELSE Absent]
    /\ awpc = [w \in Writers |-> "idle"]

\* line 56: fd, temp_path = tempfile.mkstemp(...)  (an empty file appears)
Mkstemp(w) ==
    /\ awpc[w] = "idle"
    /\ fs' = [fs EXCEPT ![TempPath(w)] = <<>>]
    /\ awpc' = [awpc EXCEPT ![w] = "write"]
    /\ UNCHANGED <<platform, initial, lruVars, ttlVars, thVars, fileVars>>

\* lines 61-63: f.write(content); f.flush() -- all blocks reach the file
WriteOk(w) ==
    /\ awpc[w] = "write"
    /\ fs' = [fs EXCEPT ![TempPath(w)] = Content(w)]
    /\ awpc' = [awpc EXCEPT ![w] = "fsync"]
    /\ UNCHANGED <<platform, initial, lruVars, ttlVars, thVars, fileVars>>

\* lines 61-63 raising: only a proper prefix of the blocks reached the file;
\* the with-block closes it and control passes to `except Exception`.
WriteFail(w) ==
    /\ awpc[w] = "write"
    /\ \E p \in Prefixes(Content(w)) \ {Content(w)} :
           fs' = [fs EXCEPT ![TempPath(w)] = p]
    /\ awpc' = [awpc EXCEPT ![w] = "cleanup"]
    /\ UNCHANGED <<platform, initial, lruVars, ttlVars, thVars, fileVars>>

\* line 64: os.fsync(f.fileno()); line 66 selects the platform branch
FsyncOk(w) ==
    /\ awpc[w] = "fsync"
    /\ awpc' = [awpc EXCEPT ![w] = IF platform = "win32" THEN "exists" ELSE "replace"]
    /\ UNCHANGED <<platform, fs, initial, lruVars, ttlVars, thVars, fileVars>>

FsyncFail(w) ==
    /\ awpc[w] = "fsync"
    /\ awpc' = [awpc EXCEPT ![w] = "cleanup"]
    /\ UNCHANGED <<platform, fs, initial, lruVars, ttlVars, thVars, fileVars>>

\* line 68 (win32 only): if file_path.exists()
WinExists(w) ==
    /\ awpc[w] = "exists"
    /\ awpc' = [awpc EXCEPT ![w] = IF fs[Target] # Absent THEN "unlink" ELSE "replace"]
    /\ UNCHANGED <<platform, fs, initial, lruVars, ttlVars, thVars, fileVars>>

\* lines 69-71 (win32 only): file_path.unlink(); a FileNotFoundError (the
\* target vanished since the check) is swallowed.
WinUnlink(w) ==
    /\ awpc[w] = "unlink"
    /\ fs' = OsUnlink(fs, Target)
    /\ awpc' = [awpc EXCEPT ![w] = "replace"]
    /\ UNCHANGED <<platform, initial, lruVars, ttlVars, thVars, fileVars>>

\* line 69 raising anything but FileNotFoundError (e.g. PermissionError)
WinUnlinkFail(w) ==
    /\ awpc[w] = "unlink"
    /\ fs[Target] # Absent
    /\ awpc' = [awpc EXCEPT ![w] = "cleanup"]
    /\ UNCHANGED <<platform, fs, initial, lruVars, ttlVars, thVars, fileVars>>

\* line 73: os.replace(temp_path, file_path)
ReplaceOk(w) ==
    /\ awpc[w] = "replace"
    /\ fs' = OsReplace(fs, TempPath(w), Target)
    /\ awpc' = [awpc EXCEPT ![w] = "returned"]
    /\ UNCHANGED <<platform, initial, lruVars, ttlVars, thVars, fileVars>>

\* line 73 raising: nothing was renamed
ReplaceFail(w) ==
    /\ awpc[w] = "replace"
    /\ awpc' = [awpc EXCEPT ![w] = "cleanup"]
    /\ UNCHANGED <<platform, fs, initial, lruVars, ttlVars, thVars, fileVars>>

\* lines 74-79: except Exception: os.unlink(temp_path); raise
Cleanup(w) ==
    /\ awpc[w] = "cleanup"
    /\ fs' = OsUnlink(fs, TempPath(w))
    /\ awpc' = [awpc EXCEPT ![w] = "raised"]
    /\ UNCHANGED <<platform, initial, lruVars, ttlVars, thVars, fileVars>>

NextAW ==
    \/ \E w \in Writers : Mkstemp(w)
    \/ \E w \in Writers : WriteOk(w)
    \/ \E w \in Writers : WriteFail(w)
    \/ \E w \in Writers : FsyncOk(w)
    \/ \E w \in Writers : FsyncFail(w)
    \/ \E w \in Writers : WinExists(w)
    \/ \E w \in Writers : WinUnlink(w)
    \/ \E w \in Writers : WinUnlinkFail(w)
    \/ \E w \in Writers : ReplaceOk(w)
    \/ \E w \in Writers : ReplaceFail(w)
    \/ \E w \in Writers : Cleanup(w)

SpecAW == InitAW /\ [][NextAW]_vars

AllFinished == \A w \in Writers : awpc[w] \in {"returned", "raised"}
AllReturned == \A w \in Writers : awpc[w] = "returned"
OnlyCall(w) == \A v \in Writers \ {w} : awpc[v] = "idle"

\* C1: when the only atomic_write call made has raised (its write, fsync or
\* rename failed), the target holds exactly what it held before the call and
\* no temporary file is left in the directory.
C1_FailedCallKeepsTarget ==
    \A w \in Writers :
        (awpc[w] = "raised" /\ OnlyCall(w)) =>
            (fs[Target] = initial /\ TempFiles(fs) = {})

\* C2: over an existing file, at every step of every call, a reader of the
\* target path finds the complete old content or the complete content of
\* one of the calls: never a missing, empty or partial file.
C2_ReaderSeesOldOrNew ==
    initial # Absent =>
        fs[Target] \in {OldContent} \cup {Content(w) : w \in Writers}

AWIdle ==
    /\ platform = "posix"
    /\ initial = Absent
    /\ fs = [n \in FileNames |-> Absent]
    /\ awpc = [w \in Writers |-> "idle"]

\* OrderedDict helpers; the first element is the oldest.
DictKeys(c) == {c[i][1] : i \in DOMAIN c}
IndexOf(c, k) == CHOOSE i \in DOMAIN c : c[i][1] = k
DictGet(c, k) == c[IndexOf(c, k)][2]
DictDel(c, k) == SelectSeq(c, LAMBDA e : e[1] # k)

\* the order is left as it was
move_to_end_noop(c, k) == c

\* OrderedDict.move_to_end(key)
move_to_end(c, k) == Append(DictDel(c, k), c[IndexOf(c, k)])

\* self.cache[key] = value: in place for a stored key, at the end otherwise
DictSet(c, k, v) ==
    IF k \in DictKeys(c) THEN [c EXCEPT ![IndexOf(c, k)] = <<k, v>>]
    ELSE Append(c, <<k, v>>)

\* nothing is deleted
LRUEvictNothing(c) == c

\* lines 62-63: oldest_key = next(iter(self.cache)); del self.cache[oldest_key]
LRUEvict(c) == DictDel(c, c[1][1])

\* history of touches: k becomes the latest
Touch(t, k) == Append(SelectSeq(t, LAMBDA x : x # k), k)

InitLRU ==
    /\ FilesIdle
    /\ AWIdle
    /\ TTLIdle
    /\ ThreadsIdle
    /\ lruCapacity \in 0..MaxCapacity
    /\ lruCache = <<>>
    /\ lruHits = 0
    /\ lruMisses = 0
    /\ lruLast = [op |-> "init", key |-> 0, val |-> None, ret |-> None]
    /\ lruTouch = <<>>

\* lines 41-45: hit
LRUCache_get_hit(k) ==
    /\ lruHits + lruMisses < MaxGets
    /\ k \in DictKeys(lruCache)
    /\ lruCache' = move_to_end(lruCache, k)
    /\ lruHits' = lruHits + 1
    /\ lruLast' = [op |-> "get", key |-> k, val |-> None, ret |-> DictGet(lruCache', k)]
    /\ lruTouch' = Touch(lruTouch, k)
    /\ UNCHANGED <<lruCapacity, lruMisses, awVars, fileVars, ttlVars, thVars>>

\* lines 46-47: miss
LRUCache_get_miss(k) ==
    /\ lruHits + lruMisses < MaxGets
    /\ k \notin DictKeys(lruCache)
    /\ lruMisses' = lruMisses + 1
    /\ lruLast' = [op |-> "get", key |-> k, val |-> None, ret |-> None]
    /\ UNCHANGED <<lruCapacity, lruCache, lruHits, lruTouch, awVars, fileVars, ttlVars, thVars>>

\* lines 57-65; next(iter(...)) on an empty OrderedDict raises StopIteration,
\* which leaves put before line 65.
LRUPutRaises(c, cap, k) == k \notin DictKeys(c) /\ Len(c) >= cap /\ c = <<>>

LRUPutResult(c, cap, k, v) ==
    IF k \in DictKeys(c) THEN DictSet(move_to_end(c, k), k, v)
    ELSE IF Len(c) >= cap THEN DictSet(LRUEvict(c), k, v)
    ELSE DictSet(c, k, v)

LRUCache_put(k, v) ==
    /\ ~LRUPutRaises(lruCache, lruCapacity, k)
    /\ lruCache' = LRUPutResult(lruCache, lruCapacity, k, v)
    /\ lruLast' = [op |-> "put", key |-> k, val |-> v, ret |-> None]
    /\ lruTouch' = Touch(lruTouch, k)
    /\ UNCHANGED <<lruCapacity, lruHits, lruMisses, awVars, fileVars, ttlVars, thVars>>

LRUCache_put_raise(k, v) ==
    /\ LRUPutRaises(lruCache, lruCapacity, k)
    /\ lruLast' = [op |-> "put", key |-> k, val |-> v, ret |-> "StopIteration"]
    /\ UNCHANGED <<lruCapacity, lruCache, lruHits, lruMisses, lruTouch, awVars, fileVars, ttlVars, thVars>>

\* lines 69-71
LRUCache_clear ==
    /\ lruCache' = <<>>
    /\ lruLast' = [op |-> "clear", key |-> 0, val |-> None, ret |-> None]
    /\ UNCHANGED <<lruCapacity, lruHits, lruMisses, lruTouch, awVars, fileVars, ttlVars, thVars>>

NextLRU ==
    \/ \E k \in Keys : LRUCache_get_hit(k)
    \/ \E k \in Keys : LRUCache_get_miss(k)
    \/ \E k \in Keys, v \in Values : LRUCache_put(k, v)
    \/ \E k \in Keys, v \in Values : LRUCache_put_raise(k, v)
    \/ LRUCache_clear

SpecLRU == InitLRU /\ [][NextLRU]_vars

\* C4: a cache of capacity N >= 1 never stores more than N keys.
C4_LRUSizeBound == lruCapacity >= 1 => Len(lruCache) <= lruCapacity

\* a full cache of the largest capacity out of which a key has been evicted
C4_Witness ==
    /\ lruCapacity = MaxCapacity
    /\ Len(lruCache) = lruCapacity
    /\ lruLast.op = "put"
    /\ lruLast.key \in DictKeys(lruCache)
    /\ \E k \in Keys : k \notin DictKeys(lruCache) /\ k \in {lruTouch[i] : i \in DOMAIN lruTouch}

TouchPos(t, k) == CHOOSE i \in DOMAIN t : t[i] = k

\* the stored key whose latest get hit or put is the oldest
LeastRecentlyTouched(c, t) ==
    CHOOSE k \in DictKeys(c) : \A j \in DictKeys(c) : TouchPos(t, k) <= TouchPos(t, j)

\* C5: keys leave the cache (other than by clear) only when put inserts a key
\* that is not stored into a full cache; that put evicts exactly the least
\* recently touched key; a put of a stored key evicts nothing, overwrites
\* the value and makes the key the most recently used.
C5_EvictsLeastRecentlyTouched ==
    [][LET evicted == DictKeys(lruCache) \ DictKeys(lruCache')
           op == lruLast'.op
           k == lruLast'.key
           stored == k \in DictKeys(lruCache)
           raised == lruLast'.ret = "StopIteration"
       IN /\ (op # "clear" /\ evicted # {}) =>
                 (op = "put" /\ ~stored /\ Len(lruCache) = lruCapacity)
          /\ (op = "put" /\ ~raised /\ ~stored /\ Len(lruCache) >= lruCapacity) =>
                 evicted = {LeastRecentlyTouched(lruCache, lruTouch)}
          /\ (op = "put" /\ stored) =>
                 /\ evicted = {}
                 /\ DictKeys(lruCache') = DictKeys(lruCache)
                 /\ lruCache'[Len(lruCache')] = <<k, lruLast'.val>>
    ]_vars

\* a put has just evicted from a full cache whose order a get hit had changed
C5_Witness ==
    /\ lruLast.op = "put"
    /\ lruHits >= 1
    /\ lruCapacity >= 2
    /\ Len(lruCache) = lruCapacity
    /\ \E k \in Keys : k \notin DictKeys(lruCache) /\ k \in {lruTouch[i] : i \in DOMAIN lruTouch}
    /\ lruCache[Len(lruCache)][1] = lruLast.key

(***************************************************************************)
(* TTLCache (cache_manager.py:92-207)                                      *)
(***************************************************************************)
Timestamp(c, k) == DictGet(c, k)[2]

\* line 156: min(self.cache.items(), key=lambda x: x[1][1])[0] -- the first
\* entry in dict order among those with the smallest timestamp
OldestKey(c) ==
    LET i == CHOOSE i \in DOMAIN c :
                 /\ \A j \in DOMAIN c : c[i][2][2] <= c[j][2][2]
                 /\ \A j \in 1..(i - 1) : c[i][2][2] < c[j][2][2]
    IN c[i][1]

\* lines 151-158
evict_oldest(c) == IF c = <<>> THEN c ELSE DictDel(c, OldestKey(c))

\* an entry whose age equals the ttl still counts as fresh
ExpiredLate(t, timestamp, ttl) == t - timestamp > ttl

\* line 127 negated / line 177: the entry's age has reached the ttl
Expired(t, timestamp, ttl) == ~(t - timestamp < ttl)

\* lines 146-149
TTLPutResult(c, maxSize, k, v, t) ==
    DictSet(IF Len(c) >= maxSize /\ k \notin DictKeys(c) THEN evict_oldest(c) ELSE c,
            k, <<v, t>>)

\* lines 175-181
\* a sweep that stops at the first entry it finds expired
ExpiredKeysFirstOnly(c, t, ttl) ==
    LET all == {k \in DictKeys(c) : Expired(t, Timestamp(c, k), ttl)} IN
    IF all = {} THEN {} ELSE {CHOOSE k \in all : \A j \in all : IndexOf(c, k) <= IndexOf(c, j)}

ExpiredKeys(c, t, ttl) == {k \in DictKeys(c) : Expired(t, Timestamp(c, k), ttl)}

\* history kept for the stored keys only
PutAtAfter(c2, k, t) ==
    [x \in Keys |-> IF x \notin DictKeys(c2) THEN -1
                    ELSE IF x = k THEN t ELSE ttlPutAt[x]]

InitTTL ==
    /\ FilesIdle
    /\ AWIdle
    /\ LRUIdle
    /\ ThreadsIdle
    /\ ttlSeconds \in 0..MaxTtl
    /\ ttlMaxSize \in MaxSizeChoices
    /\ ttlCache = <<>>
    /\ ttlHits = 0
    /\ ttlMisses = 0
    /\ ttlExpirations = 0
    /\ now = 0
    /\ ttlLast = [op |-> "init", key |-> 0, val |-> None, ret |-> None]
    /\ ttlPutAt = [k \in Keys |-> -1]

\* the clock advances between calls
Tick ==
    /\ now < MaxTime
    /\ now' = now + 1
    /\ UNCHANGED <<ttlSeconds, ttlMaxSize, ttlCache, ttlHits, ttlMisses,
                   ttlExpirations, ttlLast, ttlPutAt, awVars, fileVars, lruVars, thVars>>

\* lines 125-129: stored and fresh
TTLCache_get_hit(k) ==
    /\ ttlHits + ttlMisses < MaxGets
    /\ k \in DictKeys(ttlCache)
    /\ ~Expired(now, Timestamp(ttlCache, k), ttlSeconds)
    /\ ttlHits' = ttlHits + 1
    /\ ttlLast' = [op |-> "get", key |-> k, val |-> None, ret |-> DictGet(ttlCache, k)[1]]
    /\ UNCHANGED <<ttlSeconds, ttlMaxSize, ttlCache, ttlMisses, ttlExpirations,
                   now, ttlPutAt, awVars, fileVars, lruVars, thVars>>

\* the expired branch returning at once, without counting the miss
TTLCache_get_expired_no_miss(k) ==
    /\ ttlHits + ttlMisses < MaxGets
    /\ ttlExpirations < MaxExpirations
    /\ k \in DictKeys(ttlCache)
    /\ Expired(now, Timestamp(ttlCache, k), ttlSeconds)
    /\ ttlCache' = DictDel(ttlCache, k)
    /\ ttlExpirations' = ttlExpirations + 1
    /\ ttlLast' = [op |-> "get", key |-> k, val |-> None, ret |-> None]
    /\ ttlPutAt' = PutAtAfter(ttlCache', 0, now)
    /\ UNCHANGED <<ttlSeconds, ttlMaxSize, ttlHits, ttlMisses, now, awVars, fileVars, lruVars, thVars>>

\* lines 130-135: stored and expired
TTLCache_get_expired(k) ==
    /\ ttlHits + ttlMisses < MaxGets
    /\ ttlExpirations < MaxExpirations
    /\ k \in DictKeys(ttlCache)
    /\ Expired(now, Timestamp(ttlCache, k), ttlSeconds)
    /\ ttlCache' = DictDel(ttlCache, k)
    /\ ttlExpirations' = ttlExpirations + 1
    /\ ttlMisses' = ttlMisses + 1
    /\ ttlLast' = [op |-> "get", key |-> k, val |-> None, ret |-> None]
    /\ ttlPutAt' = PutAtAfter(ttlCache', 0, now)
    /\ UNCHANGED <<ttlSeconds, ttlMaxSize, ttlHits, now, awVars, fileVars, lruVars, thVars>>

\* lines 134-135: not stored
TTLCache_get_miss(k) ==
    /\ ttlHits + ttlMisses < MaxGets
    /\ k \notin DictKeys(ttlCache)
    /\ ttlMisses' = ttlMisses + 1
    /\ ttlLast' = [op |-> "get", key |-> k, val |-> None, ret |-> None]
    /\ UNCHANGED <<ttlSeconds, ttlMaxSize, ttlCache, ttlHits, ttlExpirations,
                   now, ttlPutAt, awVars, fileVars, lruVars, thVars>>

\* lines 145-149
TTLCache_put(k, v) ==
    /\ ttlCache' = TTLPutResult(ttlCache, ttlMaxSize, k, v, now)
    /\ ttlLast' = [op |-> "put", key |-> k, val |-> v, ret |-> None]
    /\ ttlPutAt' = PutAtAfter(ttlCache', k, now)
    /\ UNCHANGED <<ttlSeconds, ttlMaxSize, ttlHits, ttlMisses, ttlExpirations,
                   now, awVars, fileVars, lruVars, thVars>>

\* lines 162-164
TTLCache_clear ==
    /\ ttlCache' = <<>>
    /\ ttlLast' = [op |-> "clear", key |-> 0, val |-> None, ret |-> None]
    /\ ttlPutAt' = PutAtAfter(ttlCache', 0, now)
    /\ UNCHANGED <<ttlSeconds, ttlMaxSize, ttlHits, ttlMisses, ttlExpirations,
                   now, awVars, fileVars, lruVars, thVars>>

\* lines 173-187
TTLCache_cleanup_expired ==
    LET expired_keys == ExpiredKeys(ttlCache, now, ttlSeconds) IN
    /\ ttlExpirations + Cardinality(expired_keys) <= MaxExpirations
    /\ ttlCache' = SelectSeq(ttlCache, LAMBDA e : e[1] \notin expired_keys)
    /\ ttlExpirations' = ttlExpirations + Cardinality(expired_keys)
    /\ ttlLast' = [op |-> "cleanup_expired", key |-> 0, val |-> None,
                   ret |-> Cardinality(expired_keys)]
    /\ ttlPutAt' = PutAtAfter(ttlCache', 0, now)
    /\ UNCHANGED <<ttlSeconds, ttlMaxSize, ttlHits, ttlMisses, now, awVars, fileVars, lruVars, thVars>>

NextTTL ==
    \/ Tick
    \/ \E k \in Keys : TTLCache_get_hit(k)
    \/ \E k \in Keys : TTLCache_get_expired(k)
    \/ \E k \in Keys : TTLCache_get_miss(k)
    \/ \E k \in Keys, v \in Values : TTLCache_put(k, v)
    \/ TTLCache_clear
    \/ TTLCache_cleanup_expired

SpecTTL == InitTTL /\ [][NextTTL]_vars

\* a step of SpecTTL is a call exactly when the clock stands still
TTLCall(op) == now' = now /\ ttlLast'.op = op

\* C7: get on a stored key returns its value iff the time since that key's
\* latest put is strictly less than ttl_seconds, and absent otherwise; a hit
\* leaves the stored entries, timestamps included, as they were.
C7_VisibleIffFresh ==
    [][\A k \in DictKeys(ttlCache) :
          (TTLCall("get") /\ ttlLast'.key = k) =>
              /\ (now - ttlPutAt[k] < ttlSeconds) => ttlLast'.ret = DictGet(ttlCache, k)[1]
              /\ ~(now - ttlPutAt[k] < ttlSeconds) => ttlLast'.ret = None
              /\ (ttlLast'.ret # None) => ttlCache' = ttlCache
    ]_vars

\* a get has just hit, some time after construction
C7_Witness ==
    /\ ttlLast.op = "get"
    /\ ttlLast.ret \in Values
    /\ ttlHits = 1
    /\ now >= 1

\* C8: get on a stored key whose age is >= ttl_seconds returns absent, removes
\* that entry only, adds one to expirations and one to misses, and leaves
\* hits unchanged.
C8_ExpiredGet ==
    [][\A k \in DictKeys(ttlCache) :
          (TTLCall("get") /\ ttlLast'.key = k
             /\ now - Timestamp(ttlCache, k) >= ttlSeconds) =>
              /\ ttlLast'.ret = None
              /\ Len(ttlCache') = Len(ttlCache) - 1
              /\ k \notin DictKeys(ttlCache')
              /\ \A i \in DOMAIN ttlCache :
                     ttlCache[i][1] # k => \E j \in DOMAIN ttlCache' : ttlCache'[j] = ttlCache[i]
              /\ ttlExpirations' = ttlExpirations + 1
              /\ ttlMisses' = ttlMisses + 1
              /\ ttlHits' = ttlHits
    ]_vars

\* a get has just removed an expired entry and another entry is still stored
C8_Witness ==
    /\ ttlLast.op = "get"
    /\ ttlExpirations = 1
    /\ ttlMisses = 1
    /\ ttlLast.key \notin DictKeys(ttlCache)
    /\ ttlCache # <<>>

\* C9: a put of a key that is not stored, at size >= max_size, removes
\* exactly one entry, one with the smallest stored timestamp; a put of a
\* stored key removes nothing and replaces its value and timestamp.
C9_PutEvictsOldest ==
    [][LET k == ttlLast'.key
           removed == DictKeys(ttlCache) \ (DictKeys(ttlCache') \ {k})
       IN TTLCall("put") =>
              /\ (k \notin DictKeys(ttlCache) /\ Len(ttlCache) >= ttlMaxSize) =>
                     /\ Cardinality(removed) = 1
                     /\ \A x \in removed : \A y \in DictKeys(ttlCache) :
                            Timestamp(ttlCache, x) <= Timestamp(ttlCache, y)
              /\ (k \in DictKeys(ttlCache)) =>
                     /\ DictKeys(ttlCache') = DictKeys(ttlCache)
                     /\ DictGet(ttlCache', k) = <<ttlLast'.val, now>>
    ]_vars

\* C10: a TTLCache never holds more than max_size entries, for every
\* max_size >= 0.
C10_TTLSizeBound == Len(ttlCache) <= ttlMaxSize

\* C11: cleanup_expired removes exactly the entries put ttl_seconds or more
\* ago and leaves every younger entry as it was, returns the number of
\* entries it removed, raises expirations by that number and leaves hits and
\* misses alone.
C11_CleanupRemovesExactlyExpired ==
    [][TTLCall("cleanup_expired") =>
         LET agedOut == {k \in DictKeys(ttlCache) : now - ttlPutAt[k] >= ttlSeconds} IN
         /\ ttlCache' = SelectSeq(ttlCache, LAMBDA e : e[1] \notin agedOut)
         /\ ttlLast'.ret = Len(ttlCache) - Len(ttlCache')
         /\ ttlLast'.ret = Cardinality(agedOut)
         /\ ttlExpirations' = ttlExpirations + ttlLast'.ret
         /\ ttlHits' = ttlHits
         /\ ttlMisses' = ttlMisses]_vars

\* a sweep removed an expired entry and kept a younger one
C11_Witness ==
    /\ ttlLast.op = "cleanup_expired"
    /\ ttlLast.ret >= 1
    /\ ttlCache # <<>>
    /\ ttlExpirations >= 1

(***************************************************************************)
(* Threads sharing one cache (cache_manager.py: `with self.lock` in every  *)
(* public method of LRUCache and TTLCache).  A call is a sequence of       *)
(* steps; a counter update `self.hits += 1` is a read and a write.         *)
(***************************************************************************)
lruFrozen == <<lruCapacity, lruLast, lruTouch>>
ttlFrozen == <<ttlSeconds, ttlMaxSize, ttlLast, ttlPutAt>>
lruState == <<lruCache, lruHits, lruMisses>>
ttlState == <<ttlCache, ttlHits, ttlMisses, ttlExpirations>>

\* the lock is taken without waiting for its holder
LockIgnored(l) == TRUE

\* Lock.acquire() returns only when no thread holds the lock
LockFree(l) == l = 0

\* LRUCache calls run one at a time on s = [cache, hits, misses, expirations]
LRUAtomic(s, op, k, v) ==
    CASE op = "get" ->
           IF k \in DictKeys(s.cache)
           THEN [state |-> [s EXCEPT !.cache = move_to_end(s.cache, k), !.hits = @ + 1],
                 ret |-> DictGet(s.cache, k)]
           ELSE [state |-> [s EXCEPT !.misses = @ + 1], ret |-> None]
      [] op = "put" ->
           IF LRUPutRaises(s.cache, lruCapacity, k)
           THEN [state |-> s, ret |-> "StopIteration"]
           ELSE [state |-> [s EXCEPT !.cache = LRUPutResult(s.cache, lruCapacity, k, v)],
                 ret |-> None]
      [] op = "clear" -> [state |-> [s EXCEPT !.cache = <<>>], ret |-> None]
      [] op = "get_stats" ->
           [state |-> s,
            ret |-> [hits |-> s.hits, misses |-> s.misses, size |-> Len(s.cache)]]

\* TTLCache calls run one at a time, t being the clock the call reads
TTLAtomic(s, op, k, v, t) ==
    CASE op = "get" ->
           IF k \notin DictKeys(s.cache)
           THEN [state |-> [s EXCEPT !.misses = @ + 1], ret |-> None]
           ELSE IF ~Expired(t, Timestamp(s.cache, k), ttlSeconds)
           THEN [state |-> [s EXCEPT !.hits = @ + 1], ret |-> DictGet(s.cache, k)[1]]
           ELSE [state |-> [s EXCEPT !.cache = DictDel(s.cache, k),
                                     !.expirations = @ + 1, !.misses = @ + 1],
                 ret |-> None]
      [] op = "put" ->
           [state |-> [s EXCEPT !.cache = TTLPutResult(s.cache, ttlMaxSize, k, v, t)],
            ret |-> None]
      [] op = "clear" -> [state |-> [s EXCEPT !.cache = <<>>], ret |-> None]
      [] op = "cleanup_expired" ->
           LET gone == ExpiredKeys(s.cache, t, ttlSeconds) IN
           [state |-> [s EXCEPT !.cache = SelectSeq(s.cache, LAMBDA e : e[1] \notin gone),
                                !.expirations = @ + Cardinality(gone)],
            ret |-> Cardinality(gone)]
      [] op = "get_stats" ->
           [state |-> s,
            ret |-> [hits |-> s.hits, misses |-> s.misses, size |-> Len(s.cache),
                     expirations |-> s.expirations]]

\* the cache as the threads see it
Shared ==
    IF kind = "lru"
    THEN [cache |-> lruCache, hits |-> lruHits, misses |-> lruMisses, expirations |-> 0]
    ELSE [cache |-> ttlCache, hits |-> ttlHits, misses |-> ttlMisses,
          expirations |-> ttlExpirations]

InitThreads ==
    /\ FilesIdle
    /\ AWIdle
    /\ kind \in {"lru", "ttl"}
    /\ lruCapacity \in (IF kind = "lru" THEN 1..MaxCapacity ELSE {0})
    /\ lruCache = <<>>
    /\ lruHits = 0
    /\ lruMisses = 0
    /\ lruLast = [op |-> "init", key |-> 0, val |-> None, ret |-> None]
    /\ lruTouch = <<>>
    /\ ttlSeconds \in (IF kind = "ttl" THEN 1..MaxTtl ELSE {0})
    /\ ttlMaxSize \in (IF kind = "ttl" THEN MaxSizeChoices \ {0} ELSE {0})
    /\ ttlCache = <<>>
    /\ ttlHits = 0
    /\ ttlMisses = 0
    /\ ttlExpirations = 0
    /\ now = 0
    /\ ttlLast = [op |-> "init", key |-> 0, val |-> None, ret |-> None]
    /\ ttlPutAt = [k \in Keys |-> -1]
    /\ lock = 0
    /\ thr = [t \in Threads |-> IdleThread]
    /\ opsStarted = 0
    /\ lastHolder = 0
    /\ ref = [cache |-> <<>>, hits |-> 0, misses |-> 0, expirations |-> 0]
    /\ retsOk = TRUE

\* `with self.lock:` entered by thread t for a call with arguments k, v
Acquire(t, pc, k, v) ==
    /\ thr[t].pc = "idle"
    /\ opsStarted < MaxOps
    /\ LockFree(lock)
    /\ lock' = t
    /\ thr' = [thr EXCEPT ![t] = [IdleThread EXCEPT !.pc = pc, !.key = k, !.val = v]]
    /\ opsStarted' = opsStarted + 1
    /\ UNCHANGED <<kind, lastHolder, ref, retsOk, awVars, fileVars, lruFrozen, ttlFrozen,
                   lruState, ttlState, now>>

\* a step inside the with-block
Inside(t, pc) ==
    /\ thr[t].pc = pc
    /\ UNCHANGED <<kind, lock, opsStarted, lastHolder, ref, retsOk, awVars, fileVars,
                   lruFrozen, ttlFrozen, now>>

\* the with-block is left: the lock is released and the call returns ret (or
\* raises KeyError); the history applies the same call in one piece, with
\* clk the clock value the call read
Return(t, pc, op, clk, ret, keyError) ==
    /\ thr[t].pc = pc
    /\ lock' = 0
    /\ thr' = [thr EXCEPT ![t] = IdleThread]
    /\ lastHolder' = t
    /\ LET r == IF kind = "lru" THEN LRUAtomic(ref, op, thr[t].key, thr[t].val)
                ELSE TTLAtomic(ref, op, thr[t].key, thr[t].val, clk)
       IN /\ ref' = r.state
          /\ retsOk' = (retsOk /\ ~keyError /\ r.ret = ret)
    /\ UNCHANGED <<kind, opsStarted, awVars, fileVars, lruFrozen, ttlFrozen, now>>

Goto(t, pc) == thr' = [thr EXCEPT ![t].pc = pc]

\* ---- LRUCache.get, lines 41-47
T_LRU_get(t, k) ==
    /\ kind = "lru"
    /\ Acquire(t, "lru_get_42", k, None)

T_LRU_get_42(t) ==
    /\ Inside(t, "lru_get_42")
    /\ IF thr[t].key \in DictKeys(lruCache)
       THEN lruCache' = move_to_end(lruCache, thr[t].key) /\ Goto(t, "lru_get_44r")
       ELSE lruCache' = lruCache /\ Goto(t, "lru_get_46r")
    /\ UNCHANGED <<lruHits, lruMisses, ttlState>>

T_LRU_get_44r(t) ==
    /\ Inside(t, "lru_get_44r")
    /\ thr' = [thr EXCEPT ![t].tmp = lruHits, ![t].pc = "lru_get_44w"]
    /\ UNCHANGED <<lruState, ttlState>>

T_LRU_get_44w(t) ==
    /\ Inside(t, "lru_get_44w")
    /\ lruHits' = thr[t].tmp + 1
    /\ Goto(t, "lru_get_45")
    /\ UNCHANGED <<lruCache, lruMisses, ttlState>>

T_LRU_get_45(t) ==
    /\ IF thr[t].key \in DictKeys(lruCache)
       THEN Return(t, "lru_get_45", "get", 0, DictGet(lruCache, thr[t].key), FALSE)
       ELSE Return(t, "lru_get_45", "get", 0, None, TRUE)
    /\ UNCHANGED <<lruState, ttlState>>

T_LRU_get_46r(t) ==
    /\ Inside(t, "lru_get_46r")
    /\ thr' = [thr EXCEPT ![t].tmp = lruMisses, ![t].pc = "lru_get_46w"]
    /\ UNCHANGED <<lruState, ttlState>>

T_LRU_get_46w(t) ==
    /\ Return(t, "lru_get_46w", "get", 0, None, FALSE)
    /\ lruMisses' = thr[t].tmp + 1
    /\ UNCHANGED <<lruCache, lruHits, ttlState>>

\* ---- LRUCache.put, lines 57-65
T_LRU_put(t, k, v) ==
    /\ kind = "lru"
    /\ Acquire(t, "lru_put_58", k, v)

T_LRU_put_58(t) ==
    /\ Inside(t, "lru_put_58")
    /\ IF thr[t].key \in DictKeys(lruCache)
       THEN lruCache' = move_to_end(lruCache, thr[t].key) /\ Goto(t, "lru_put_65")
       ELSE /\ lruCache' = lruCache
            /\ Goto(t, IF Len(lruCache) >= lruCapacity THEN "lru_put_62" ELSE "lru_put_65")
    /\ UNCHANGED <<lruHits, lruMisses, ttlState>>

\* lines 62-63; next(iter(...)) raises StopIteration on an empty cache
T_LRU_put_62(t) ==
    /\ IF lruCache # <<>>
       THEN /\ Inside(t, "lru_put_62")
            /\ lruCache' = LRUEvict(lruCache)
            /\ Goto(t, "lru_put_65")
       ELSE /\ Return(t, "lru_put_62", "put", 0, "StopIteration", FALSE)
            /\ lruCache' = lruCache
    /\ UNCHANGED <<lruHits, lruMisses, ttlState>>

T_LRU_put_65(t) ==
    /\ Return(t, "lru_put_65", "put", 0, None, FALSE)
    /\ lruCache' = DictSet(lruCache, thr[t].key, thr[t].val)
    /\ UNCHANGED <<lruHits, lruMisses, ttlState>>

\* ---- LRUCache.clear, lines 69-71
T_LRU_clear(t) ==
    /\ kind = "lru"
    /\ Acquire(t, "lru_clear_70", 0, None)

T_LRU_clear_70(t) ==
    /\ Return(t, "lru_clear_70", "clear", 0, None, FALSE)
    /\ lruCache' = <<>>
    /\ UNCHANGED <<lruHits, lruMisses, ttlState>>

\* ---- LRUCache.get_stats, lines 80-89 (hit_rate is a formatting of the
\* hits and misses read here)
T_LRU_get_stats(t) ==
    /\ kind = "lru"
    /\ Acquire(t, "lru_stats_81", 0, None)

T_LRU_stats_81(t) ==
    /\ Inside(t, "lru_stats_81")
    /\ thr' = [thr EXCEPT ![t].tmp = lruHits, ![t].pc = "lru_stats_85"]
    /\ UNCHANGED <<lruState, ttlState>>

T_LRU_stats_85(t) ==
    /\ Return(t, "lru_stats_85", "get_stats", 0,
              [hits |-> thr[t].tmp, misses |-> lruMisses, size |-> Len(lruCache)], FALSE)
    /\ UNCHANGED <<lruState, ttlState>>

\* the clock advances while calls are in progress
T_Tick ==
    /\ kind = "ttl"
    /\ now < MaxTime
    /\ now' = now + 1
    /\ UNCHANGED <<kind, lock, thr, opsStarted, lastHolder, ref, retsOk, awVars, fileVars,
                   lruFrozen, ttlFrozen, lruState, ttlState>>

\* ---- TTLCache.get, lines 124-135
T_TTL_get(t, k) ==
    /\ kind = "ttl"
    /\ Acquire(t, "ttl_get_125", k, None)

\* lines 125-127: the entry is read and its age compared with the ttl
T_TTL_get_125(t) ==
    /\ Inside(t, "ttl_get_125")
    /\ IF thr[t].key \notin DictKeys(ttlCache) THEN Goto(t, "ttl_get_134r")
       ELSE IF ~Expired(now, Timestamp(ttlCache, thr[t].key), ttlSeconds)
       THEN thr' = [thr EXCEPT ![t].val = DictGet(ttlCache, thr[t].key)[1],
                               ![t].clk = now,
                               ![t].pc = "ttl_get_128r"]
       ELSE thr' = [thr EXCEPT ![t].clk = now, ![t].pc = "ttl_get_131"]
    /\ UNCHANGED <<lruState, ttlState>>

T_TTL_get_128r(t) ==
    /\ Inside(t, "ttl_get_128r")
    /\ thr' = [thr EXCEPT ![t].tmp = ttlHits, ![t].pc = "ttl_get_128w"]
    /\ UNCHANGED <<lruState, ttlState>>

\* lines 128-129: the value read at line 126 is returned
T_TTL_get_128w(t) ==
    /\ Return(t, "ttl_get_128w", "get", thr[t].clk, thr[t].val, FALSE)
    /\ ttlHits' = thr[t].tmp + 1
    /\ UNCHANGED <<lruState, ttlCache, ttlMisses, ttlExpirations>>

\* line 131: del self.cache[key], a KeyError when the entry is gone
T_TTL_get_131(t) ==
    /\ IF thr[t].key \in DictKeys(ttlCache)
       THEN /\ Inside(t, "ttl_get_131")
            /\ ttlCache' = DictDel(ttlCache, thr[t].key)
            /\ Goto(t, "ttl_get_132r")
       ELSE /\ Return(t, "ttl_get_131", "get", thr[t].clk, None, TRUE)
            /\ ttlCache' = ttlCache
    /\ UNCHANGED <<lruState, ttlHits, ttlMisses, ttlExpirations>>

T_TTL_get_132r(t) ==
    /\ Inside(t, "ttl_get_132r")
    /\ thr' = [thr EXCEPT ![t].tmp = ttlExpirations, ![t].pc = "ttl_get_132w"]
    /\ UNCHANGED <<lruState, ttlState>>

T_TTL_get_132w(t) ==
    /\ Inside(t, "ttl_get_132w")
    /\ ttlExpirations' = thr[t].tmp + 1
    /\ Goto(t, "ttl_get_134r")
    /\ UNCHANGED <<lruState, ttlCache, ttlHits, ttlMisses>>

T_TTL_get_134r(t) ==
    /\ Inside(t, "ttl_get_134r")
    /\ thr' = [thr EXCEPT ![t].tmp = ttlMisses, ![t].pc = "ttl_get_134w"]
    /\ UNCHANGED <<lruState, ttlState>>

\* lines 134-135
T_TTL_get_134w(t) ==
    /\ Return(t, "ttl_get_134w", "get", thr[t].clk, None, FALSE)
    /\ ttlMisses' = thr[t].tmp + 1
    /\ UNCHANGED <<lruState, ttlCache, ttlHits, ttlExpirations>>

\* ---- TTLCache.put, lines 145-149
T_TTL_put(t, k, v) ==
    /\ kind = "ttl"
    /\ Acquire(t, "ttl_put_146", k, v)

T_TTL_put_146(t) ==
    /\ Inside(t, "ttl_put_146")
    /\ Goto(t, IF Len(ttlCache) >= ttlMaxSize /\ thr[t].key \notin DictKeys(ttlCache)
               THEN "ttl_put_147" ELSE "ttl_put_149")
    /\ UNCHANGED <<lruState, ttlState>>

\* line 147: self._evict_oldest()
T_TTL_put_147(t) ==
    /\ Inside(t, "ttl_put_147")
    /\ ttlCache' = evict_oldest(ttlCache)
    /\ Goto(t, "ttl_put_149")
    /\ UNCHANGED <<lruState, ttlHits, ttlMisses, ttlExpirations>>

\* line 149: self.cache[key] = (value, time.time())
T_TTL_put_149(t) ==
    /\ Return(t, "ttl_put_149", "put", now, None, FALSE)
    /\ ttlCache' = DictSet(ttlCache, thr[t].key, <<thr[t].val, now>>)
    /\ UNCHANGED <<lruState, ttlHits, ttlMisses, ttlExpirations>>

\* ---- TTLCache.clear, lines 162-164
T_TTL_clear(t) ==
    /\ kind = "ttl"
    /\ Acquire(t, "ttl_clear_163", 0, None)

T_TTL_clear_163(t) ==
    /\ Return(t, "ttl_clear_163", "clear", now, None, FALSE)
    /\ ttlCache' = <<>>
    /\ UNCHANGED <<lruState, ttlHits, ttlMisses, ttlExpirations>>

\* ---- TTLCache.cleanup_expired, lines 173-187
T_TTL_cleanup_expired(t) ==
    /\ kind = "ttl"
    /\ Acquire(t, "ttl_cleanup_174", 0, None)

\* lines 174-178: current_time and expired_keys, in dict order
T_TTL_cleanup_174(t) ==
    /\ Inside(t, "ttl_cleanup_174")
    /\ LET expired == SelectSeq(ttlCache,
                          LAMBDA e : Expired(now, e[2][2], ttlSeconds))
       IN thr' = [thr EXCEPT ![t].todo = [i \in DOMAIN expired |-> expired[i][1]],
                             ![t].cnt = Len(expired),
                             ![t].clk = now,
                             ![t].pc = "ttl_cleanup_180"]
    /\ UNCHANGED <<lruState, ttlState>>

\* lines 180-181: del self.cache[key] for the next expired key, a KeyError
\* when the entry is gone
T_TTL_cleanup_181(t) ==
    /\ thr[t].todo # <<>>
    /\ IF Head(thr[t].todo) \in DictKeys(ttlCache)
       THEN /\ Inside(t, "ttl_cleanup_180")
            /\ ttlCache' = DictDel(ttlCache, Head(thr[t].todo))
            /\ thr' = [thr EXCEPT ![t].todo = Tail(@), ![t].pc = "ttl_cleanup_182r"]
       ELSE /\ Return(t, "ttl_cleanup_180", "cleanup_expired", thr[t].clk, 0, TRUE)
            /\ ttlCache' = ttlCache
    /\ UNCHANGED <<lruState, ttlHits, ttlMisses, ttlExpirations>>

T_TTL_cleanup_182r(t) ==
    /\ Inside(t, "ttl_cleanup_182r")
    /\ thr' = [thr EXCEPT ![t].tmp = ttlExpirations, ![t].pc = "ttl_cleanup_182w"]
    /\ UNCHANGED <<lruState, ttlState>>

T_TTL_cleanup_182w(t) ==
    /\ Inside(t, "ttl_cleanup_182w")
    /\ ttlExpirations' = thr[t].tmp + 1
    /\ Goto(t, "ttl_cleanup_180")
    /\ UNCHANGED <<lruState, ttlCache, ttlHits, ttlMisses>>

\* line 187: return len(expired_keys)
T_TTL_cleanup_187(t) ==
    /\ thr[t].todo = <<>>
    /\ Return(t, "ttl_cleanup_180", "cleanup_expired", thr[t].clk, thr[t].cnt, FALSE)
    /\ UNCHANGED <<lruState, ttlState>>

\* ---- TTLCache.get_stats, lines 196-207
T_TTL_get_stats(t) ==
    /\ kind = "ttl"
    /\ Acquire(t, "ttl_stats_197", 0, None)

T_TTL_stats_197(t) ==
    /\ Inside(t, "ttl_stats_197")
    /\ thr' = [thr EXCEPT ![t].tmp = ttlHits, ![t].pc = "ttl_stats_200"]
    /\ UNCHANGED <<lruState, ttlState>>

T_TTL_stats_200(t) ==
    /\ Return(t, "ttl_stats_200", "get_stats", now,
              [hits |-> thr[t].tmp, misses |-> ttlMisses, size |-> Len(ttlCache),
               expirations |-> ttlExpirations], FALSE)
    /\ UNCHANGED <<lruState, ttlState>>

NextThreads ==
    \/ T_Tick
    \/ \E t \in Threads, k \in ThreadKeys : T_TTL_get(t, k)
    \/ \E t \in Threads : T_TTL_get_125(t)
    \/ \E t \in Threads : T_TTL_get_128r(t)
    \/ \E t \in Threads : T_TTL_get_128w(t)
    \/ \E t \in Threads : T_TTL_get_131(t)
    \/ \E t \in Threads : T_TTL_get_132r(t)
    \/ \E t \in Threads : T_TTL_get_132w(t)
    \/ \E t \in Threads : T_TTL_get_134r(t)
    \/ \E t \in Threads : T_TTL_get_134w(t)
    \/ \E t \in Threads, k \in ThreadKeys, v \in Values : T_TTL_put(t, k, v)
    \/ \E t \in Threads : T_TTL_put_146(t)
    \/ \E t \in Threads : T_TTL_put_147(t)
    \/ \E t \in Threads : T_TTL_put_149(t)
    \/ \E t \in Threads : T_TTL_clear(t)
    \/ \E t \in Threads : T_TTL_clear_163(t)
    \/ \E t \in Threads : T_TTL_cleanup_expired(t)
    \/ \E t \in Threads : T_TTL_cleanup_174(t)
    \/ \E t \in Threads : T_TTL_cleanup_181(t)
    \/ \E t \in Threads : T_TTL_cleanup_182r(t)
    \/ \E t \in Threads : T_TTL_cleanup_182w(t)
    \/ \E t \in Threads : T_TTL_cleanup_187(t)
    \/ \E t \in Threads : T_TTL_get_stats(t)
    \/ \E t \in Threads : T_TTL_stats_197(t)
    \/ \E t \in Threads : T_TTL_stats_200(t)
    \/ \E t \in Threads, k \in ThreadKeys : T_LRU_get(t, k)
    \/ \E t \in Threads : T_LRU_get_42(t)
    \/ \E t \in Threads : T_LRU_get_44r(t)
    \/ \E t \in Threads : T_LRU_get_44w(t)
    \/ \E t \in Threads : T_LRU_get_45(t)
    \/ \E t \in Threads : T_LRU_get_46r(t)
    \/ \E t \in Threads : T_LRU_get_46w(t)
    \/ \E t \in Threads, k \in ThreadKeys, v \in Values : T_LRU_put(t, k, v)
    \/ \E t \in Threads : T_LRU_put_58(t)
    \/ \E t \in Threads : T_LRU_put_62(t)
    \/ \E t \in Threads : T_LRU_put_65(t)
    \/ \E t \in Threads : T_LRU_clear(t)
    \/ \E t \in Threads : T_LRU_clear_70(t)
    \/ \E t \in Threads : T_LRU_get_stats(t)
    \/ \E t \in Threads : T_LRU_stats_81(t)
    \/ \E t \in Threads : T_LRU_stats_85(t)

SpecThreads == InitThreads /\ [][NextThreads]_vars

InitFC ==
    /\ AWIdle
    /\ TTLIdle
    /\ ThreadsIdle
    /\ MDIdle
    /\ MLIIdle
    /\ CfgIdle
    /\ RunIdle
    /\ StoreIdle
    /\ lruCapacity \in 0..MaxCapacity
    /\ lruCache = <<>>
    /\ lruHits = 0
    /\ lruMisses = 0
    /\ lruLast = [op |-> "init", key |-> 0, val |-> None, ret |-> None]
    /\ lruTouch = <<>>
    /\ diskMtime = [p \in FilePaths |-> StatFails]
    /\ FCIdle

\* a file is written, touched or removed between two calls
FileModified(p, m) ==
    /\ m # diskMtime[p]
    /\ diskMtime' = [diskMtime EXCEPT ![p] = m]
    /\ UNCHANGED <<awVars, lruVars, ttlVars, thVars, extVars, fcVars, mdVars, mliVars>>

\* a stat() that answers for every path
StatAlwaysOk(m) == TRUE

\* lines 239, 264: file_path.stat().st_mtime returns instead of raising
StatOk(m) == m # StatFails

\* a comparison that only asks whether an mtime was recorded
MtimeCached(cached_mtime, current_mtime) == cached_mtime # NoMtime

\* line 244
MtimeMatches(cached_mtime, current_mtime) ==
    cached_mtime # NoMtime /\ cached_mtime = current_mtime

\* lines 227-252; the except clause turns every exception into None
FileCache_get(p) ==
    LET looked == StatOk(diskMtime[p]) /\ MtimeMatches(fcMtime[p], diskMtime[p])
        r == LRUAtomic([cache |-> lruCache, hits |-> lruHits, misses |-> lruMisses],
                       "get", p, None)
    IN
    /\ looked => lruHits + lruMisses < MaxGets
    /\ IF looked
       THEN /\ lruCache' = r.state.cache
            /\ lruHits' = r.state.hits
            /\ lruMisses' = r.state.misses
            /\ fcLast' = [op |-> "get", key |-> p, ret |-> r.ret, raised |-> FALSE]
       ELSE /\ UNCHANGED lruState
            /\ fcLast' = [op |-> "get", key |-> p, ret |-> None, raised |-> FALSE]
    /\ UNCHANGED <<fcMtime, fcPut, diskMtime, lruFrozen, awVars, ttlVars, thVars, extVars,
                   mdVars, mliVars>>

\* lines 254-270; an exception of stat() or of LRUCache.put is logged, not raised
FileCache_put(p, v) ==
    LET stored == StatOk(diskMtime[p]) /\ ~LRUPutRaises(lruCache, lruCapacity, p) IN
    /\ lruCache' = IF stored THEN LRUPutResult(lruCache, lruCapacity, p, v) ELSE lruCache
    /\ fcMtime' = IF stored THEN [fcMtime EXCEPT ![p] = diskMtime[p]] ELSE fcMtime
    /\ fcPut' = IF stored THEN [fcPut EXCEPT ![p] = <<diskMtime[p], v>>] ELSE fcPut
    /\ fcLast' = [op |-> "put", key |-> p, ret |-> None, raised |-> FALSE]
    /\ UNCHANGED <<lruHits, lruMisses, diskMtime, lruFrozen, awVars, ttlVars, thVars, extVars,
                   mdVars, mliVars>>

\* lines 272-276
FileCache_clear ==
    /\ lruCache' = <<>>
    /\ fcMtime' = [p \in FilePaths |-> NoMtime]
    /\ fcLast' = [op |-> "clear", key |-> 0, ret |-> None, raised |-> FALSE]
    /\ UNCHANGED <<lruHits, lruMisses, fcPut, diskMtime, lruFrozen, awVars, ttlVars,
                   thVars, extVars, mdVars, mliVars>>

NextFC ==
    \/ \E p \in FilePaths, m \in Mtimes \cup {StatFails} : FileModified(p, m)
    \/ \E p \in FilePaths : FileCache_get(p)
    \/ \E p \in FilePaths, v \in Values : FileCache_put(p, v)
    \/ FileCache_clear

SpecFC == InitFC /\ [][NextFC]_vars

\* C12: FileCache.get returns a content only if the latest put that stored
\* for that path saw the mtime the file has now, and then returns that put's
\* content; when the file's mtime differs from the recorded one, get returns
\* absent and leaves the LRU and the mtime table as they were.  No get removes
\* an entry or changes a recorded mtime.
C12_GetOnlyAtRecordedMtime ==
    [][(diskMtime' = diskMtime /\ fcLast'.op = "get") =>
         LET p == fcLast'.key IN
         /\ fcLast'.ret # None =>
                /\ diskMtime[p] # StatFails
                /\ fcPut[p] = <<diskMtime[p], fcLast'.ret>>
         /\ (fcMtime[p] # NoMtime /\ diskMtime[p] # fcMtime[p]) =>
                /\ fcLast'.ret = None
                /\ lruCache' = lruCache
         /\ fcMtime' = fcMtime
         /\ {lruCache'[i] : i \in DOMAIN lruCache'} = {lruCache[i] : i \in DOMAIN lruCache}
         /\ Len(lruCache') = Len(lruCache)]_vars

\* a get found the file changed since the put and left the entry in the LRU
C12_Witness ==
    /\ fcLast.op = "get"
    /\ fcLast.ret = None
    /\ fcLast.key \in DictKeys(lruCache)
    /\ fcMtime[fcLast.key] # NoMtime
    /\ diskMtime[fcLast.key] \in Mtimes \ {fcMtime[fcLast.key]}

\* C13: when stat() fails for the path, get returns absent without raising,
\* and put returns without raising and leaves the LRU and the mtime table
\* exactly as they were.
C13_StatFailureIsSwallowed ==
    [][(diskMtime' = diskMtime /\ fcLast'.op \in {"get", "put"}
          /\ diskMtime[fcLast'.key] = StatFails) =>
         /\ ~fcLast'.raised
         /\ fcLast'.ret = None
         /\ fcLast'.op = "put" => (lruCache' = lruCache /\ fcMtime' = fcMtime)]_vars

\* a put for a removed file whose earlier content is still cached
C13_Witness ==
    /\ fcLast.op = "put"
    /\ diskMtime[fcLast.key] = StatFails
    /\ fcLast.key \in DictKeys(lruCache)
    /\ fcMtime[fcLast.key] # NoMtime
(***************************************************************************)
(* IndexMetadata (incremental_indexing.py:82-157) and its file             *)
(* index_metadata.json.  A fresh IndexMetadata() is the load action.       *)
(***************************************************************************)
\* the all_files arguments of get_changed_files
CandidateLists == {<<1>>, <<2>>, <<1, 2>>, <<2, 1>>}

InitMeta ==
    /\ platform \in {"posix", "win32"}
    /\ initial = Absent
    /\ fs = [n \in FileNames |-> Absent]
    /\ awpc = [w \in Writers |-> "idle"]
    /\ LRUIdle
    /\ TTLIdle
    /\ ThreadsIdle
    /\ FCIdle
    /\ MLIIdle
    /\ CfgIdle
    /\ RunIdle
    /\ StoreIdle
    /\ diskMtime = [p \in FilePaths |-> StatFails]
    /\ MDIdle

\* a writer that loses the last entry
JsonDumpsTruncated(d) ==
    [i \in 1..(3 * (Len(d) - 1)) |->
        LET e == d[(i + 2) \div 3] IN
        CASE i % 3 = 1 -> <<"key", e[1]>>
          [] i % 3 = 2 -> <<"mtime", e[2][1]>>
          [] OTHER -> <<"indexed_at", e[2][2]>>]

\* line 107: json.dumps(self.metadata, indent=2), the text as a sequence of
\* lines: per path its key line, then its "mtime" and "indexed_at" lines
JsonDumps(d) ==
    [i \in 1..(3 * Len(d)) |->
        LET e == d[(i + 2) \div 3] IN
        CASE i % 3 = 1 -> <<"key", e[1]>>
          [] i % 3 = 2 -> <<"mtime", e[2][1]>>
          [] OTHER -> <<"indexed_at", e[2][2]>>]

\* line 91: json.load(f), the dict rebuilt from the lines in file order
JsonLoad(text) ==
    [i \in 1..(Len(text) \div 3) |->
        <<text[3 * i - 2][2], <<text[3 * i - 1][2], text[3 * i][2]>>>>]

\* lines 114-115: self.metadata.get(file_path, {}).get("mtime", 0.0)
get_file_mtime(d, p) == IF p \in DictKeys(d) THEN DictGet(d, p)[1] ELSE 0

\* lines 87-95: IndexMetadata() reads the file, {} when there is none
IndexMetadata_load ==
    /\ mdMeta' = IF mdFile = Absent THEN <<>> ELSE JsonLoad(mdFile)
    /\ mdLast' = [op |-> "load", arg |-> <<>>, ret |-> <<>>, raised |-> FALSE]
    /\ UNCHANGED <<mdFile, diskMtime, awVars, lruVars, ttlVars, thVars, extVars, fcVars, mliVars>>

\* lines 97-109: the text reaches the file through atomic_write
IndexMetadata_save ==
    /\ mdFile' = JsonDumps(mdMeta)
    /\ mdLast' = [op |-> "save", arg |-> <<>>, ret |-> <<>>, raised |-> FALSE]
    /\ UNCHANGED <<mdMeta, diskMtime, awVars, lruVars, ttlVars, thVars, extVars, fcVars, mliVars>>

\* lines 110-112: atomic_write raised; on win32 it may have unlinked the
\* file before the failing replace (lines 69-71)
IndexMetadata_save_raise ==
    /\ mdFile' \in {mdFile} \cup (IF platform = "win32" THEN {Absent} ELSE {})
    /\ mdLast' = [op |-> "save", arg |-> <<>>, ret |-> <<>>, raised |-> TRUE]
    /\ UNCHANGED <<mdMeta, diskMtime, awVars, lruVars, ttlVars, thVars, extVars, fcVars, mliVars>>

\* lines 117-121; datetime.now() gives every call a later reading
IndexMetadata_update_file(p, mtime) ==
    /\ now < MaxTime
    /\ now' = now + 1
    /\ mdMeta' = DictSet(mdMeta, p, <<mtime, <<"iso", now'>>>>)
    /\ mdLast' = [op |-> "update_file", arg |-> <<p>>, ret |-> <<>>, raised |-> FALSE]
    /\ UNCHANGED <<mdFile, diskMtime, awVars, lruVars, thVars, extVars, fcVars, mliVars,
                   ttlSeconds, ttlMaxSize, ttlCache, ttlHits, ttlMisses,
                   ttlExpirations, ttlLast, ttlPutAt>>

\* a pruning that deletes nothing
RemoveDeletedNothing(d, existing_files) == d

\* lines 138-145: self.metadata after remove_deleted_files(existing_files)
RemoveDeleted(d, existing_files) == SelectSeq(d, LAMBDA e : e[1] \in existing_files)

\* lines 138-145; arg lists existing_files in path order
IndexMetadata_remove_deleted_files(existing_files) ==
    /\ mdMeta' = RemoveDeleted(mdMeta, existing_files)
    /\ mdLast' = [op |-> "remove_deleted_files",
                  arg |-> SelectSeq(<<1, 2>>, LAMBDA p : p \in existing_files),
                  ret |-> <<>>, raised |-> FALSE]
    /\ UNCHANGED <<mdFile, diskMtime, awVars, lruVars, ttlVars, thVars, extVars, fcVars, mliVars>>

\* lines 123-136: the list returned; a candidate whose stat() raises is
\* appended by the except clause
GetChangedFiles(d, all_files) ==
    SelectSeq(all_files, LAMBDA p : \/ ~StatOk(diskMtime[p])
                                    \/ diskMtime[p] > get_file_mtime(d, p))

\* lines 123-136
IndexMetadata_get_changed_files(all_files) ==
    /\ mdLast' = [op |-> "get_changed_files", arg |-> all_files,
                  ret |-> GetChangedFiles(mdMeta, all_files),
                  raised |-> FALSE]
    /\ UNCHANGED <<mdMeta, mdFile, diskMtime, awVars, lruVars, ttlVars, thVars, extVars,
                   fcVars, mliVars>>

\* load, update, save: the store and its file
NextMeta ==
    \/ IndexMetadata_load
    \/ IndexMetadata_save
    \/ IndexMetadata_save_raise
    \/ \E p \in FilePaths, m \in Mtimes : IndexMetadata_update_file(p, m)
    \/ \E existing_files \in SUBSET FilePaths :
          IndexMetadata_remove_deleted_files(existing_files)

SpecMeta == InitMeta /\ [][NextMeta]_vars

\* update and query while the files change on disk
NextChanged ==
    \/ \E p \in FilePaths, m \in Mtimes \cup {StatFails} : FileModified(p, m)
    \/ \E p \in FilePaths, m \in Mtimes : IndexMetadata_update_file(p, m)
    \/ \E l \in CandidateLists : IndexMetadata_get_changed_files(l)

SpecChanged == InitMeta /\ [][NextChanged]_vars

\* C14: get_changed_files returns exactly the candidates whose stat() fails,
\* or that have no record in the store, or whose mtime on disk is strictly
\* greater than the stored one; a candidate without a record is returned
\* whatever its mtime.
C14_ChangedFilesExact ==
    [][(diskMtime' = diskMtime /\ mdMeta' = mdMeta
          /\ mdLast'.op = "get_changed_files") =>
         LET ret == {mdLast'.ret[i] : i \in DOMAIN mdLast'.ret} IN
         \A i \in DOMAIN mdLast'.arg :
            LET p == mdLast'.arg[i] IN
            p \in ret <=>
               \/ diskMtime[p] = StatFails
               \/ p \notin DictKeys(mdMeta)
               \/ diskMtime[p] > DictGet(mdMeta, p)[1]]_vars

DocSizes == {1, 2}
\* the max_memory_bytes of the objects constructed
BudgetChoices == {2, 6}

InitMLI ==
    /\ AWIdle
    /\ LRUIdle
    /\ TTLIdle
    /\ ThreadsIdle
    /\ FCIdle
    /\ MDIdle
    /\ CfgIdle
    /\ RunIdle
    /\ StoreIdle
    /\ diskMtime = [p \in FilePaths |-> StatFails]
    /\ mli \in {[max_memory_bytes |-> b, documents |-> <<>>, metadatas |-> <<>>,
                 ids |-> <<>>, current_memory |-> 0, total_chunks |-> 0,
                 total_batches |-> 0] : b \in BudgetChoices}
    /\ sinkLog = <<>>
    /\ mliLast = [op |-> "init", raised |-> FALSE, size |-> 0, called |-> FALSE]
    /\ mliAdds = 0

\* lines 29-41: sys.getsizeof of the object and of what it contains
estimate_size(obj) == obj[3]

\* a test that flushes already at the limit
NeedsFlushAtLimit(b, chunk_size) ==
    b.current_memory + chunk_size >= b.max_memory_bytes /\ b.documents # <<>>

\* an add_chunk that never flushes
NeedsFlushNever(b, chunk_size) == FALSE

\* a test that looks at the buffered bytes without the new chunk
NeedsFlushIgnoresNew(b, chunk_size) ==
    b.current_memory > b.max_memory_bytes /\ b.documents # <<>>

\* line 58
NeedsFlush(b, chunk_size) ==
    b.current_memory + chunk_size > b.max_memory_bytes /\ b.documents # <<>>

\* a finally block that forgets self.ids
FlushResultKeepsIds(b, raises) ==
    IF b.documents = <<>>
    THEN [self |-> b, called |-> FALSE, raised |-> FALSE]
    ELSE [self |-> [b EXCEPT !.documents = <<>>, !.metadatas = <<>>,
                             !.current_memory = 0,
                             !.total_batches = IF raises THEN @ ELSE @ + 1],
          called |-> TRUE, raised |-> raises]

\* a flush without the early return of line 72
FlushResultCallsOnEmpty(b, raises) ==
    [self |-> [b EXCEPT !.documents = <<>>, !.metadatas = <<>>, !.ids = <<>>,
                        !.current_memory = 0,
                        !.total_batches = IF raises THEN @ ELSE @ + 1],
     called |-> TRUE, raised |-> raises]

\* a flush that clears the buffers only after the callback returned
FlushResultKeepsFailedBatch(b, raises) ==
    IF b.documents = <<>>
    THEN [self |-> b, called |-> FALSE, raised |-> FALSE]
    ELSE IF raises
    THEN [self |-> b, called |-> TRUE, raised |-> TRUE]
    ELSE [self |-> [b EXCEPT !.documents = <<>>, !.metadatas = <<>>, !.ids = <<>>,
                             !.current_memory = 0, !.total_batches = @ + 1],
          called |-> TRUE, raised |-> FALSE]

\* lines 67-91: self after flush(), whether batch_callback was called, and
\* whether flush() raised; `raises` is what the callback does when called
FlushResult(b, raises) ==
    IF b.documents = <<>>
    THEN [self |-> b, called |-> FALSE, raised |-> FALSE]
    ELSE [self |-> [b EXCEPT !.documents = <<>>, !.metadatas = <<>>, !.ids = <<>>,
                             !.current_memory = 0,
                             !.total_batches = IF raises THEN @ ELSE @ + 1],
          called |-> TRUE, raised |-> raises]

\* lines 43-65; an exception of the flush at line 59 leaves add_chunk there
MemoryLimitedIndexer_add_chunk(size, raises) ==
    LET n == mliAdds + 1
        document == <<"doc", n, size>>
        metadata == <<"meta", n, 1>>
        doc_id == <<"id", n, 1>>
        chunk_size == estimate_size(document) + estimate_size(metadata)
                        + estimate_size(doc_id)
        f == IF NeedsFlush(mli, chunk_size) THEN FlushResult(mli, raises)
             ELSE [self |-> mli, called |-> FALSE, raised |-> FALSE]
    IN
    /\ mliAdds < MaxAdds
    /\ raises => f.called
    /\ mliAdds' = n
    /\ sinkLog' = IF f.called
                  THEN Append(sinkLog, [documents |-> mli.documents,
                                        metadatas |-> mli.metadatas,
                                        ids |-> mli.ids, raised |-> raises,
                                        auto |-> TRUE])
                  ELSE sinkLog
    /\ mli' = IF f.raised THEN f.self
              ELSE [f.self EXCEPT !.documents = Append(@, document),
                                  !.metadatas = Append(@, metadata),
                                  !.ids = Append(@, doc_id),
                                  !.current_memory = @ + chunk_size,
                                  !.total_chunks = @ + 1]
    /\ mliLast' = [op |-> "add_chunk", raised |-> f.raised, size |-> chunk_size,
                   called |-> f.called]
    /\ UNCHANGED <<diskMtime, awVars, lruVars, ttlVars, thVars, extVars, fcVars, mdVars>>

\* lines 67-91, called by the user of the object
MemoryLimitedIndexer_flush(raises) ==
    LET f == FlushResult(mli, raises) IN
    /\ raises => f.called
    /\ mli' = f.self
    /\ sinkLog' = IF f.called
                  THEN Append(sinkLog, [documents |-> mli.documents,
                                        metadatas |-> mli.metadatas,
                                        ids |-> mli.ids, raised |-> raises,
                                        auto |-> FALSE])
                  ELSE sinkLog
    /\ mliLast' = [op |-> "flush", raised |-> f.raised, size |-> 0, called |-> f.called]
    /\ UNCHANGED <<mliAdds, diskMtime, awVars, lruVars, ttlVars, thVars, extVars, fcVars, mdVars>>

NextMLI ==
    \/ \E size \in DocSizes, raises \in BOOLEAN : MemoryLimitedIndexer_add_chunk(size, raises)
    \/ \E raises \in BOOLEAN : MemoryLimitedIndexer_flush(raises)

SpecMLI == InitMLI /\ [][NextMLI]_vars

\* C16: after every add_chunk and every flush, returned or raised, the three
\* buffers have the same length and position i of each holds a part of the
\* same chunk.
C16_BuffersAligned ==
    /\ Len(mli.documents) = Len(mli.metadatas)
    /\ Len(mli.metadatas) = Len(mli.ids)
    /\ \A i \in DOMAIN mli.documents :
          /\ mli.documents[i][1] = "doc"
          /\ mli.metadatas[i][1] = "meta"
          /\ mli.ids[i][1] = "id"
          /\ mli.documents[i][2] = mli.metadatas[i][2]
          /\ mli.documents[i][2] = mli.ids[i][2]

\* two chunks are buffered after an earlier batch failed in the callback
C16_Witness ==
    /\ Len(mli.documents) = 2
    /\ sinkLog # <<>>
    /\ sinkLog[1].raised

\* C17: add_chunk calls the callback before appending exactly when the buffer
\* is non-empty and current_memory plus the new chunk's estimate exceeds
\* max_memory_bytes; a chunk larger than the budget enters an empty buffer
\* without a flush, and the very next add_chunk or flush hands it to the
\* callback.
C17_FlushBeforeAppend ==
    [][/\ mliAdds' = mliAdds + 1 =>
            /\ mliLast'.called <=>
                  /\ mli.documents # <<>>
                  /\ mli.current_memory + mliLast'.size > mli.max_memory_bytes
            /\ mliLast'.called <=> Len(sinkLog') = Len(sinkLog) + 1
            /\ (mli.documents = <<>> /\ mliLast'.size > mli.max_memory_bytes) =>
                  /\ ~mliLast'.raised
                  /\ sinkLog' = sinkLog
                  /\ Len(mli'.documents) = 1
                  /\ mli'.documents[1][2] = mliAdds'
       /\ (Len(mli.documents) = 1 /\ mli.current_memory > mli.max_memory_bytes) =>
            /\ Len(sinkLog') = Len(sinkLog) + 1
            /\ sinkLog'[Len(sinkLog')].documents = mli.documents]_vars

\* an add_chunk handed over the oversized chunk that sat alone in the buffer
C17_Witness ==
    /\ mliLast.op = "add_chunk"
    /\ mliLast.called
    /\ Len(sinkLog[Len(sinkLog)].documents) = 1
    /\ sinkLog[Len(sinkLog)].documents[1][3] + 2 > mli.max_memory_bytes

\* C18: the callback is never called with empty sequences; flush on an empty
\* buffer does not call it and leaves total_batches, total_chunks and the
\* buffers as they were; every flush leaves the buffer empty, so that of two
\* flushes in a row the second does not call the callback.
C18_NoEmptyBatch ==
    [][/\ \A i \in DOMAIN sinkLog' :
            /\ sinkLog'[i].documents # <<>>
            /\ sinkLog'[i].metadatas # <<>>
            /\ sinkLog'[i].ids # <<>>
       /\ (mliAdds' = mliAdds /\ mliLast'.op = "flush") =>
            /\ mli.documents = <<>> =>
                  (~mliLast'.called /\ mli' = mli /\ sinkLog' = sinkLog)
            /\ mli'.documents = <<>>
            /\ Len(sinkLog') <= Len(sinkLog) + 1
            /\ mliLast.op = "flush" => (~mliLast'.called /\ sinkLog' = sinkLog)]_vars

\* a flush found the buffer empty after an earlier flush delivered a batch
C18_Witness ==
    /\ mliLast.op = "flush"
    /\ ~mliLast.called
    /\ mliAdds = 1
    /\ Len(sinkLog) = 1

\* C19: when the callback raises, the exception leaves the call, the buffers
\* are empty, current_memory is zero and total_batches is not incremented;
\* no chunk is ever passed to the callback twice.
C19_FailedBatchIsDropped ==
    [][/\ (Len(sinkLog') = Len(sinkLog) + 1 /\ sinkLog'[Len(sinkLog')].raised) =>
            /\ mliLast'.raised
            /\ mli'.documents = <<>>
            /\ mli'.metadatas = <<>>
            /\ mli'.ids = <<>>
            /\ mli'.current_memory = 0
            /\ mli'.total_batches = mli.total_batches
       /\ \A i, j \in DOMAIN sinkLog' : \A x \in DOMAIN sinkLog'[i].ids,
                                           y \in DOMAIN sinkLog'[j].ids :
            sinkLog'[i].ids[x] = sinkLog'[j].ids[y] => (i = j /\ x = y)]_vars

\* a batch failed in the callback and a later batch was delivered
C19_Witness ==
    /\ Len(sinkLog) >= 2
    /\ sinkLog[1].raised
    /\ ~sinkLog[2].raised
    /\ mli.total_batches = 1

\* C20: total_chunks equals the number of add_chunk calls made so far,
\* whether or not a flush inside one of them raised.
C20_TotalChunksCountsCalls == mli.total_chunks = mliAdds

\* the estimates of all parts passed to add_chunk so far, summed: the parts
\* are in the buffer or in a batch the callback received
C21_BytesAdded ==
    LET PartsOf(r) == UNION {{r.documents[i], r.metadatas[i], r.ids[i]} :
                                i \in DOMAIN r.documents}
        parts == PartsOf(mli) \cup UNION {PartsOf(sinkLog[b]) : b \in DOMAIN sinkLog}
        RECURSIVE SumOf(_)
        SumOf(S) == IF S = {} THEN 0
                    ELSE LET x == CHOOSE y \in S : TRUE IN x[3] + SumOf(S \ {x})
    IN SumOf(parts)

\* only add_chunk has called the callback so far, and it never raised
C21_OnlyAutoFlushes ==
    \A b \in DOMAIN sinkLog : sinkLog[b].auto /\ ~sinkLog[b].raised

\* C21 as stated: for every N >= 1, N add_chunk calls whose estimates sum to
\* more than max_memory_bytes (the callback not raising) include an automatic
\* flush before the N-th returns.
C21_AutoFlushFromOneChunk ==
    (C21_OnlyAutoFlushes /\ mliAdds >= 1 /\ C21_BytesAdded > mli.max_memory_bytes)
        => sinkLog # <<>>

\* C21: for every N >= 2, N add_chunk calls whose estimates sum to more than
\* max_memory_bytes (the callback not raising) include an automatic flush
\* before the N-th returns; a flush call, the callback never having raised,
\* leaves the buffer empty and current_memory 0 with total_chunks = N.
C21_AutoFlushFromTwoChunks ==
    [][/\ (C21_OnlyAutoFlushes' /\ mliAdds' >= 2
             /\ C21_BytesAdded' > mli'.max_memory_bytes) => sinkLog' # <<>>
       /\ (mliAdds' = mliAdds /\ mliLast'.op = "flush"
             /\ \A b \in DOMAIN sinkLog' : ~sinkLog'[b].raised) =>
            /\ mli'.documents = <<>>
            /\ mli'.current_memory = 0
            /\ mli'.total_chunks = mliAdds]_vars

\* three chunks above the budget in sum: an automatic flush, then the final
\* flush call
C21_Witness ==
    /\ mliLast.op = "flush"
    /\ mliLast.called
    /\ mliAdds = 3
    /\ mli.total_chunks = 3
    /\ Len(sinkLog) >= 2
    /\ sinkLog[1].auto
    /\ \A b \in DOMAIN sinkLog : ~sinkLog[b].raised

\* C27: remove_deleted_files(existing) removes exactly the entries whose path
\* is not in existing: afterwards every stored path is in existing, and the
\* entry of every path in existing is as it was, in the order it had.
C27_PruneExactlyMissing ==
    [][mdLast'.op = "remove_deleted_files" =>
         LET existing == {mdLast'.arg[i] : i \in DOMAIN mdLast'.arg} IN
         /\ DictKeys(mdMeta') = DictKeys(mdMeta) \cap existing
         /\ \A p \in DictKeys(mdMeta') : DictGet(mdMeta', p) = DictGet(mdMeta, p)
         /\ \A i, j \in DOMAIN mdMeta' :
               i < j => IndexOf(mdMeta, mdMeta'[i][1]) < IndexOf(mdMeta, mdMeta'[j][1])
         /\ Len(mdMeta') = Cardinality(DictKeys(mdMeta'))]_vars

\* of the two paths of the saved store the pruning removed one and kept the other
C27_Witness ==
    /\ mdLast.op = "remove_deleted_files"
    /\ Len(mdLast.arg) = 1
    /\ DictKeys(mdMeta) = {mdLast.arg[1]}
    /\ mdFile # Absent
    /\ Len(mdFile) = 6

\* C29: on an LRUCache constructed with capacity <= 0 every put returns
\* without raising and stores its key.
C29_NonPositiveCapacityGuarded ==
    (lruCapacity <= 0 /\ lruLast.op = "put") =>
        /\ lruLast.ret # "StopIteration"
        /\ lruLast.key \in DictKeys(lruCache)

(***************************************************************************)
(* Environment-tunable limits (config.py:83-85, 200-221).  The text of a   *)
(* variable is a sequence of characters.                                   *)
(***************************************************************************)
MAX_FILE_SIZE_MB == 10
MAX_MEMORY_MB == 100

\* the texts the variables are set to
EnvValues == {<<>>, <<"0">>, <<"1">>, <<"5", "0">>, <<"0", "7">>, <<"-", "3">>,
              <<"+", "2">>, <<" ", "4", " ">>, <<"x">>, <<"1", "x">>, <<"-">>,
              <<"1", ".", "5">>, <<"1", " ", "2">>, <<" ">>}

InitConfig ==
    /\ AWIdle
    /\ LRUIdle
    /\ TTLIdle
    /\ ThreadsIdle
    /\ diskMtime = [p \in FilePaths |-> StatFails]
    /\ FCIdle
    /\ MDIdle
    /\ MLIIdle
    /\ RunIdle
    /\ StoreIdle
    /\ CfgIdle

\* int(text) of a str: surrounding whitespace dropped, an optional sign, then
\* decimal digits; ok is FALSE where int() raises ValueError
PyInt(text) ==
    LET inner == {i \in DOMAIN text : text[i] # " "}
        lo == CHOOSE i \in inner : \A j \in inner : i <= j
        hi == CHOOSE i \in inner : \A j \in inner : i >= j
        stripped == IF inner = {} THEN <<>> ELSE SubSeq(text, lo, hi)
        signed == stripped # <<>> /\ stripped[1] \in {"-", "+"}
        digits == IF signed THEN Tail(stripped) ELSE stripped
        DigitValue(c) == CASE c = "0" -> 0 [] c = "1" -> 1 [] c = "2" -> 2
                           [] c = "3" -> 3 [] c = "4" -> 4 [] c = "5" -> 5
                           [] c = "6" -> 6 [] c = "7" -> 7 [] c = "8" -> 8
                           [] c = "9" -> 9
        RECURSIVE Horner(_)
        Horner(d) == IF d = <<>> THEN 0
                     ELSE 10 * Horner(SubSeq(d, 1, Len(d) - 1)) + DigitValue(d[Len(d)])
        ok == /\ digits # <<>>
              /\ \A i \in DOMAIN digits :
                    digits[i] \in {"0", "1", "2", "3", "4", "5", "6", "7", "8", "9"}
    IN [ok |-> ok,
        value |-> IF ~ok THEN 0
                  ELSE IF signed /\ stripped[1] = "-" THEN 0 - Horner(digits)
                  ELSE Horner(digits)]

\* a getter without the try/except around int()
LimitBytesUnguarded(env_size, default_mb) ==
    IF env_size # NoEnv /\ env_size # <<>>
    THEN IF PyInt(env_size).ok
         THEN [ret |-> PyInt(env_size).value * 1024 * 1024, raised |-> FALSE]
         ELSE [ret |-> 0, raised |-> TRUE]
    ELSE [ret |-> default_mb * 1024 * 1024, raised |-> FALSE]

\* lines 200-207 and 210-221: the body the two getters share
LimitBytes(env_size, default_mb) ==
    IF env_size # NoEnv /\ env_size # <<>> /\ PyInt(env_size).ok
    THEN [ret |-> PyInt(env_size).value * 1024 * 1024, raised |-> FALSE]
    ELSE [ret |-> default_mb * 1024 * 1024, raised |-> FALSE]

\* the process environment is set up or changed
SetEnv(name, text) ==
    /\ text # env[name]
    /\ env' = [env EXCEPT ![name] = text]
    /\ UNCHANGED <<cfgLast, diskMtime, awVars, lruVars, ttlVars, thVars, fcVars,
                   mdVars, mliVars, runVars, storeVars>>

\* lines 200-207
get_max_file_size_bytes ==
    LET r == LimitBytes(env["PROJECTMIND_MAX_FILE_SIZE_MB"], MAX_FILE_SIZE_MB) IN
    /\ cfgLast' = [op |-> "get_max_file_size_bytes", ret |-> r.ret, raised |-> r.raised]
    /\ UNCHANGED <<env, diskMtime, awVars, lruVars, ttlVars, thVars, fcVars,
                   mdVars, mliVars, runVars, storeVars>>

\* lines 210-221
get_max_memory_bytes ==
    LET r == LimitBytes(env["PROJECTMIND_MAX_MEMORY_MB"], MAX_MEMORY_MB) IN
    /\ cfgLast' = [op |-> "get_max_memory_bytes", ret |-> r.ret, raised |-> r.raised]
    /\ UNCHANGED <<env, diskMtime, awVars, lruVars, ttlVars, thVars, fcVars,
                   mdVars, mliVars, runVars, storeVars>>

NextConfig ==
    \/ \E name \in EnvNames, text \in EnvValues \cup {NoEnv} : SetEnv(name, text)
    \/ get_max_file_size_bytes
    \/ get_max_memory_bytes

SpecConfig == InitConfig /\ [][NextConfig]_vars

\* C28: for every value of their variable the two getters return without
\* raising: the value times 1 MiB when the text is a decimal integer (spaces
\* around it and a sign allowed), and the default, 10 MiB for the file size
\* cap and 100 MiB for the memory budget, when the variable is absent or its
\* text is no integer.
C28_LimitsNeverRaise ==
    [][(env' = env /\ cfgLast'.op \in {"get_max_file_size_bytes", "get_max_memory_bytes"}) =>
         LET file == cfgLast'.op = "get_max_file_size_bytes"
             text == IF file THEN env["PROJECTMIND_MAX_FILE_SIZE_MB"]
                     ELSE env["PROJECTMIND_MAX_MEMORY_MB"]
             default == IF file THEN 10 * 1048576 ELSE 100 * 1048576
             Spaces(n) == [i \in 1..n |-> " "]
             Pow10(n) == CASE n = 0 -> 1 [] n = 1 -> 10 [] n = 2 -> 100
             Decimal(n) ==
                 IF n < 10 THEN {<<"0", "1", "2", "3", "4", "5", "6", "7", "8", "9">>[n + 1]}
                 ELSE {}
             \* the texts that denote the integer n: digits d1 d2, most
             \* significant first, with leading zeros, sign and spaces
             Forms(n) ==
                 LET mag == IF n < 0 THEN 0 - n ELSE n
                     cores == {<<c>> : c \in Decimal(mag)}
                                \cup {<<c1, c2>> : c1 \in Decimal(mag \div 10),
                                                   c2 \in Decimal(mag % 10)}
                     signs == IF n < 0 THEN {<<"-">>}
                              ELSE IF n = 0 THEN {<<>>, <<"+">>, <<"-">>}
                              ELSE {<<>>, <<"+">>}
                 IN {Spaces(a) \o sg \o c \o Spaces(b) :
                        a \in 0..1, b \in 0..1, sg \in signs, c \in cores}
             denoted == {n \in -99..99 : text \in Forms(n)}
         IN
         /\ ~cfgLast'.raised
         /\ \A n \in denoted : cfgLast'.ret = n * 1048576
         /\ (text = NoEnv \/ denoted = {}) => cfgLast'.ret = default]_vars

\* the memory budget fell back to 100 MiB on a text that is no integer
C28_Witness ==
    /\ cfgLast.op = "get_max_memory_bytes"
    /\ env["PROJECTMIND_MAX_MEMORY_MB"] = <<"1", ".", "5">>
    /\ cfgLast.ret = 104857600

(***************************************************************************)
(* CodebaseIndexer.index_all and index_changed (codebase_indexer.py:       *)
(* 45-259).  A run is a process whose position is run.phase: "scanning"    *)
(* until the scan has returned, "processing" inside the loop over the      *)
(* files, "flushing" from the end of the loop on, "done" when the method   *)
(* has returned and "failed" when it has raised.  run.tail holds the       *)
(* statements between the loop and the return that are still to run.       *)
(* The store, its file and the batcher are the variables of the sections   *)
(* above; upserts lists the calls of VectorStoreManager.upsert.            *)
(***************************************************************************)
BATCH_SIZE == 100

\* the number of runs followed
MaxRuns == 2

\* the mtimes of the files of the tree
RunMtimes == {1, 2}

\* the stores an earlier session has saved, recorded at time 0
SavedStores == {<<>>, <<<<1, <<1, <<"iso", 0>>>>>>>>,
                <<<<1, <<1, <<"iso", 0>>>>>>, <<2, <<2, <<"iso", 0>>>>>>>>}

\* what reading and splitting a file gives: safe_read_text raises, or the
\* content is blank, or the estimates of the chunks
ReadOutcomes == {[ok |-> FALSE, sizes |-> <<>>], [ok |-> TRUE, sizes |-> <<>>],
                 [ok |-> TRUE, sizes |-> <<1>>], [ok |-> TRUE, sizes |-> <<2, 1>>]}

InitRun ==
    /\ platform \in {"posix", "win32"}
    /\ initial = Absent
    /\ fs = [n \in FileNames |-> Absent]
    /\ awpc = [w \in Writers |-> "idle"]
    /\ LRUIdle
    /\ TTLIdle
    /\ ThreadsIdle
    /\ FCIdle
    /\ MLIIdle
    /\ CfgIdle
    /\ RunIdle
    /\ StoreIdle
    /\ diskMtime \in [FilePaths -> RunMtimes \cup {StatFails}]
    /\ mdMeta = <<>>
    /\ mdFile \in {Absent} \cup {JsonDumps(d) : d \in SavedStores \ {<<>>}}
    /\ mdLast = [op |-> "init", arg |-> <<>>, ret |-> <<>>, raised |-> FALSE]

\* lines 252-256: what index_changed runs between its loop and its return
IncrementalTailSaveFirst == <<"prune", "save", "flush">>
IncrementalTail == <<"flush", "prune", "save">>

\* line 213
FullTail == <<"flush">>

\* a run that goes on with an empty list of changed files
NoChangedFilesNever(changed_files) == FALSE

\* a run that returns whatever has changed
NoChangedFilesAlways(changed_files) == TRUE

\* line 237: `if not changed_files`
NoChangedFiles(changed_files) == changed_files = <<>>

\* lines 202 and 241: MemoryLimitedIndexer(max_memory, callback)
NewIndexer(max_memory_bytes) ==
    [max_memory_bytes |-> max_memory_bytes, documents |-> <<>>, metadatas |-> <<>>,
     ids |-> <<>>, current_memory |-> 0, total_chunks |-> 0, total_batches |-> 0]

\* a loop that passes on full slices only
SlicesFullOnly(items, size) ==
    [k \in 1..(Len(items) \div size) |-> SubSeq(items, (k - 1) * size + 1, k * size)]

\* lines 57-58 and the [i:end] of lines 60-62: for i in range(0, len(items), size)
\* the slice items[i:min(i + size, len(items))]
Slices(items, size) ==
    [k \in 1..((Len(items) + size - 1) \div size) |->
        SubSeq(items, (k - 1) * size + 1,
               IF k * size < Len(items) THEN k * size ELSE Len(items))]

\* lines 57-62: the upsert calls of one batch_upsert call, `call` being its
\* number among the sink calls and ok what each upsert returns
BatchUpsert(documents, ids, call, ok) ==
    [k \in DOMAIN Slices(documents, BATCH_SIZE) |->
        [ids |-> Slices(ids, BATCH_SIZE)[k], ok |-> ok, call |-> call]]

\* the part of a run's position that a new run resets; prevOk: when the
\* run before was an incremental run that saved and the tree is as it left
\* it, the files that run listed and did not fail to read
StartRun(method, phase) ==
    [NoRun EXCEPT !.phase = phase, !.kind = method, !.phases = <<phase>>,
                  !.retry = run.skipped, !.runs = run.runs + 1,
                  !.prevOk = IF run.clean
                             THEN {run.all_files[i] : i \in DOMAIN run.all_files}
                                     \ {e[1] : e \in run.skipped}
                             ELSE {}]

RunEnded == run.phase \in {"idle", "done", "failed"}

\* lines 194-203: index_all up to the scan; a forced run whose
\* clear_collection returns an error message returns it.  The objects of
\* the run before are gone; index_all has no IndexMetadata
index_all_begin(force, clear_ok, max_memory) ==
    /\ RunEnded
    /\ run.runs < MaxRuns
    /\ clear_ok \/ force
    /\ IF force /\ ~clear_ok
       THEN /\ run' = [StartRun("index_all", "done") EXCEPT
                          !.result = "error"]
            /\ mli' = NewIndexer(0)
       ELSE /\ run' = [StartRun("index_all", "scanning") EXCEPT
                          !.steps = <<"construct">>]
            /\ mli' = NewIndexer(max_memory)
    /\ upserts' = <<>>
    /\ sinkLog' = <<>>
    /\ mliAdds' = 0
    /\ mliLast' = [op |-> "init", raised |-> FALSE, size |-> 0, called |-> FALSE]
    /\ mdMeta' = <<>>
    /\ mdLast' = [op |-> "init", arg |-> <<>>, ret |-> <<>>, raised |-> FALSE]
    /\ UNCHANGED <<mdFile, cfgVars, storeVars, diskMtime, awVars, lruVars, ttlVars, thVars, fcVars>>

\* line 232: index_changed builds its IndexMetadata, which loads the file;
\* the objects of the run before are gone, and until the constructor of
\* line 241 runs mli is a batcher without budget that nothing calls
index_changed_begin ==
    /\ RunEnded
    /\ run.runs < MaxRuns
    /\ mdMeta' = IF mdFile = Absent THEN <<>> ELSE JsonLoad(mdFile)
    /\ mdLast' = [op |-> "load", arg |-> <<>>, ret |-> <<>>, raised |-> FALSE]
    /\ run' = [StartRun("index_changed", "scanning") EXCEPT
                  !.steps = <<"load">>, !.before = mdMeta', !.beforeFile = mdFile]
    /\ mli' = NewIndexer(0)
    /\ upserts' = <<>>
    /\ sinkLog' = <<>>
    /\ mliAdds' = 0
    /\ mliLast' = [op |-> "init", raised |-> FALSE, size |-> 0, called |-> FALSE]
    /\ UNCHANGED <<mdFile, cfgVars, storeVars, diskMtime, awVars, lruVars, ttlVars, thVars, fcVars>>

\* lines 206-207 and 234-246: the scan lists the files whose stat() answers
\* (should_index_file, lines 84-96);
\* index_changed then asks the store and returns when nothing changed
scan_indexable_files(max_memory) ==
    LET all_files == SelectSeq(<<1, 2>>, LAMBDA p : StatOk(diskMtime[p]))
        changed_files == GetChangedFiles(mdMeta, all_files)
    IN
    /\ run.phase = "scanning"
    /\ IF run.kind = "index_all"
       THEN /\ run' = [run EXCEPT !.phase = "processing",
                                  !.phases = Append(@, "processing"),
                                  !.steps = Append(@, "scan"),
                                  !.all_files = all_files, !.todo = all_files]
            /\ UNCHANGED <<mliVars, upserts>>
       ELSE IF NoChangedFiles(changed_files)
       THEN /\ run' = [run EXCEPT !.phase = "done", !.phases = Append(@, "done"),
                                  !.steps = Append(@, "scan"),
                                  !.all_files = all_files,
                                  !.changed = changed_files, !.result = "noop"]
            /\ UNCHANGED <<mliVars, upserts>>
       ELSE /\ run' = [run EXCEPT !.phase = "processing",
                                  !.phases = Append(@, "processing"),
                                  !.steps = @ \o <<"scan", "construct">>,
                                  !.all_files = all_files,
                                  !.changed = changed_files, !.todo = changed_files]
            /\ mli' = NewIndexer(max_memory)
            /\ UNCHANGED <<upserts, sinkLog, mliLast, mliAdds>>
    /\ UNCHANGED <<mdVars, cfgVars, storeVars, diskMtime, awVars, lruVars, ttlVars, thVars, fcVars>>

\* lines 135-140 and 147-152: the next file is read and split; a read that
\* raises and a blank content make process_file_to_chunks return False
process_file_read(outcome) ==
    LET p == Head(run.todo) IN
    /\ run.phase = "processing"
    /\ run.cur = 0
    /\ run.todo # <<>>
    /\ run' = IF ~outcome.ok
              THEN [run EXCEPT !.todo = Tail(@), !.read = @ \cup {p},
                               !.steps = Append(@, "process"),
                               !.skipped = @ \cup {<<p, diskMtime[p]>>}]
              ELSE IF outcome.sizes = <<>>
              THEN [run EXCEPT !.todo = Tail(@), !.read = @ \cup {p},
                               !.steps = Append(@, "process")]
              ELSE [run EXCEPT !.todo = Tail(@), !.read = @ \cup {p},
                               !.steps = Append(@, "process"),
                               !.cur = p, !.chunks = outcome.sizes,
                               !.chunk_index = 0,
                               !.readAt = IF run.kind = "index_changed"
                                          THEN Append(@, <<p, diskMtime[p]>>) ELSE @]
    /\ UNCHANGED <<upserts, mliVars, mdVars, cfgVars, storeVars, diskMtime, awVars, lruVars,
                   ttlVars, thVars, fcVars>>

\* lines 142-145: one add_chunk call of the loop over the chunks; the
\* callback never raises, as upsert returns False for what fails
\* (vector_store_manager.py:217-230)
process_file_chunk(ok) ==
    LET n == 10 * run.cur + run.chunk_index
        document == <<"doc", n, Head(run.chunks)>>
        metadata == <<"meta", n, 1>>
        doc_id == <<"id", n, 1>>
        chunk_size == estimate_size(document) + estimate_size(metadata)
                        + estimate_size(doc_id)
        f == IF NeedsFlush(mli, chunk_size) THEN FlushResult(mli, FALSE)
             ELSE [self |-> mli, called |-> FALSE, raised |-> FALSE]
    IN
    /\ run.phase = "processing"
    /\ run.cur # 0
    /\ run.chunks # <<>>
    /\ ok \/ f.called
    /\ mliAdds' = mliAdds + 1
    /\ sinkLog' = IF f.called
                  THEN Append(sinkLog, [documents |-> mli.documents,
                                        metadatas |-> mli.metadatas,
                                        ids |-> mli.ids, raised |-> FALSE,
                                        auto |-> TRUE])
                  ELSE sinkLog
    /\ upserts' = IF f.called
                  THEN upserts \o BatchUpsert(mli.documents, mli.ids, Len(sinkLog'), ok)
                  ELSE upserts
    /\ mli' = [f.self EXCEPT !.documents = Append(@, document),
                             !.metadatas = Append(@, metadata),
                             !.ids = Append(@, doc_id),
                             !.current_memory = @ + chunk_size,
                             !.total_chunks = @ + 1]
    /\ mliLast' = [op |-> "add_chunk", raised |-> FALSE, size |-> chunk_size,
                   called |-> f.called]
    /\ run' = [run EXCEPT !.chunks = Tail(@), !.chunk_index = @ + 1]
    /\ UNCHANGED <<mdVars, cfgVars, storeVars, diskMtime, awVars, lruVars, ttlVars, thVars, fcVars>>

\* line 147 and lines 170-178: process_file_to_chunks returned True;
\* index_changed stats the file and records it, a failing stat() makes
\* process_file_with_metadata return False
process_file_end ==
    LET p == run.cur
        recorded == run.kind = "index_changed" /\ StatOk(diskMtime[p])
    IN
    /\ run.phase = "processing"
    /\ run.cur # 0
    /\ run.chunks = <<>>
    /\ IF recorded
       THEN /\ now < MaxTime
            /\ now' = now + 1
            /\ mdMeta' = DictSet(mdMeta, p, <<diskMtime[p], <<"iso", now'>>>>)
            /\ mdLast' = [op |-> "update_file", arg |-> <<p>>, ret |-> <<>>,
                          raised |-> FALSE]
       ELSE UNCHANGED <<now, mdMeta, mdLast>>
    /\ run' = [run EXCEPT !.cur = 0,
                          !.file_count = IF recorded \/ run.kind = "index_all"
                                         THEN @ + 1 ELSE @]
    /\ UNCHANGED <<mdFile, upserts, mliVars, cfgVars, storeVars, diskMtime, awVars, lruVars,
                   thVars, fcVars, ttlSeconds, ttlMaxSize, ttlCache, ttlHits,
                   ttlMisses, ttlExpirations, ttlLast, ttlPutAt>>

\* the loop over the files is exhausted
process_loop_end ==
    /\ run.phase = "processing"
    /\ run.cur = 0
    /\ run.todo = <<>>
    /\ run' = [run EXCEPT !.phase = "flushing", !.phases = Append(@, "flushing"),
                          !.tail = IF run.kind = "index_all" THEN FullTail
                                   ELSE IncrementalTail]
    /\ UNCHANGED <<upserts, mliVars, mdVars, cfgVars, storeVars, diskMtime, awVars, lruVars,
                   ttlVars, thVars, fcVars>>

\* lines 213 and 252: indexer.flush()
index_flush(ok) ==
    LET f == FlushResult(mli, FALSE) IN
    /\ run.phase = "flushing"
    /\ run.tail # <<>>
    /\ Head(run.tail) = "flush"
    /\ ok \/ f.called
    /\ mli' = f.self
    /\ sinkLog' = IF f.called
                  THEN Append(sinkLog, [documents |-> mli.documents,
                                        metadatas |-> mli.metadatas,
                                        ids |-> mli.ids, raised |-> FALSE,
                                        auto |-> FALSE])
                  ELSE sinkLog
    /\ upserts' = IF f.called
                  THEN upserts \o BatchUpsert(mli.documents, mli.ids, Len(sinkLog'), ok)
                  ELSE upserts
    /\ mliLast' = [op |-> "flush", raised |-> FALSE, size |-> 0, called |-> f.called]
    /\ run' = [run EXCEPT !.tail = Tail(@), !.steps = Append(@, "flush")]
    /\ UNCHANGED <<mliAdds, mdVars, cfgVars, storeVars, diskMtime, awVars, lruVars, ttlVars,
                   thVars, fcVars>>

\* lines 254-255
index_changed_prune ==
    LET existing_files == {run.all_files[i] : i \in DOMAIN run.all_files} IN
    /\ run.phase = "flushing"
    /\ run.tail # <<>>
    /\ Head(run.tail) = "prune"
    /\ mdMeta' = RemoveDeleted(mdMeta, existing_files)
    /\ mdLast' = [op |-> "remove_deleted_files",
                  arg |-> SelectSeq(<<1, 2>>, LAMBDA p : p \in existing_files),
                  ret |-> <<>>, raised |-> FALSE]
    /\ run' = [run EXCEPT !.tail = Tail(@), !.steps = Append(@, "prune")]
    /\ UNCHANGED <<mdFile, upserts, mliVars, cfgVars, storeVars, diskMtime, awVars, lruVars,
                   ttlVars, thVars, fcVars>>

\* line 256: metadata.save() returns
index_changed_save ==
    /\ run.phase = "flushing"
    /\ run.tail # <<>>
    /\ Head(run.tail) = "save"
    /\ mdFile' = JsonDumps(mdMeta)
    /\ mdLast' = [op |-> "save", arg |-> <<>>, ret |-> <<>>, raised |-> FALSE]
    /\ run' = [run EXCEPT !.tail = Tail(@), !.steps = Append(@, "save")]
    /\ UNCHANGED <<mdMeta, upserts, mliVars, cfgVars, storeVars, diskMtime, awVars, lruVars,
                   ttlVars, thVars, fcVars>>

\* line 256: metadata.save() raises (incremental_indexing.py:110-112) and
\* nothing in index_changed catches it
index_changed_save_raise ==
    /\ run.phase = "flushing"
    /\ run.tail # <<>>
    /\ Head(run.tail) = "save"
    /\ mdFile' \in {mdFile} \cup (IF platform = "win32" THEN {Absent} ELSE {})
    /\ mdLast' = [op |-> "save", arg |-> <<>>, ret |-> <<>>, raised |-> TRUE]
    /\ run' = [run EXCEPT !.phase = "failed", !.phases = Append(@, "failed"),
                          !.result = "raised", !.steps = Append(@, "save")]
    /\ UNCHANGED <<mdMeta, upserts, mliVars, cfgVars, storeVars, diskMtime, awVars, lruVars,
                   ttlVars, thVars, fcVars>>

\* lines 215-216 and 258-259: the count summary is returned
index_return ==
    /\ run.phase = "flushing"
    /\ run.tail = <<>>
    /\ run' = [run EXCEPT !.phase = "done", !.phases = Append(@, "done"),
                          !.result = "summary", !.clean = run.kind = "index_changed"]
    /\ UNCHANGED <<upserts, mliVars, mdVars, cfgVars, storeVars, diskMtime, awVars, lruVars,
                   ttlVars, thVars, fcVars>>

\* the tree changes between two runs
FileModifiedBetweenRuns(p, m) ==
    /\ run.phase \in {"done", "failed"}
    /\ run.runs < MaxRuns
    /\ m # diskMtime[p]
    /\ diskMtime' = [diskMtime EXCEPT ![p] = m]
    /\ run' = [run EXCEPT !.clean = FALSE]
    /\ UNCHANGED <<upserts, mliVars, mdVars, cfgVars, storeVars, awVars, lruVars, ttlVars,
                   thVars, fcVars>>

NextRun ==
    \/ \E force \in BOOLEAN, clear_ok \in BOOLEAN, b \in BudgetChoices :
          index_all_begin(force, clear_ok, b)
    \/ index_changed_begin
    \/ \E b \in BudgetChoices : scan_indexable_files(b)
    \/ \E outcome \in ReadOutcomes : process_file_read(outcome)
    \/ \E ok \in BOOLEAN : process_file_chunk(ok)
    \/ process_file_end
    \/ process_loop_end
    \/ \E ok \in BOOLEAN : index_flush(ok)
    \/ index_changed_prune
    \/ index_changed_save
    \/ index_changed_save_raise
    \/ index_return
    \/ \E p \in FilePaths, m \in RunMtimes \cup {StatFails} :
          FileModifiedBetweenRuns(p, m)

SpecRun == InitRun /\ [][NextRun]_vars

\* the record of path p in the store d, and the store a file holds
EntryOf(d, p) == IF p \in DictKeys(d) THEN <<DictGet(d, p)>> ELSE <<>>
StoredIn(f) == IF f = Absent THEN <<>> ELSE JsonLoad(f)
ScanStep == run.phase = "scanning" /\ run'.phase # "scanning"

\* C22: in an incremental run only the files get_changed_files returned are
\* read and chunked, and for every scanned file it did not return the record
\* (mtime and indexed_at) in the store object and in the metadata file is the
\* one from before the run.
C22_UnchangedEntriesKept ==
    (run.kind = "index_changed" /\ run.phase \in {"processing", "flushing", "done", "failed"}) =>
        LET changed == {run.changed[i] : i \in DOMAIN run.changed}
            scanned == {run.all_files[i] : i \in DOMAIN run.all_files}
        IN
        /\ run.read \subseteq changed
        /\ \A p \in scanned \ changed :
              /\ EntryOf(mdMeta, p) = EntryOf(run.before, p)
              /\ EntryOf(StoredIn(mdFile), p) = EntryOf(StoredIn(run.beforeFile), p)

\* C23: when get_changed_files returns no file, index_changed returns its
\* no-op result from the scan: no batcher is constructed or flushed, the sink
\* is not called, the store is neither pruned nor saved and the metadata file
\* is not written.
C23_NoChangeShortCircuits ==
    [][(ScanStep /\ run.kind = "index_changed"
          /\ GetChangedFiles(mdMeta,
                SelectSeq(<<1, 2>>, LAMBDA p : diskMtime[p] # StatFails)) = <<>>) =>
         /\ run'.phase = "done"
         /\ run'.result = "noop"
         /\ run'.steps = <<"load", "scan">>
         /\ mli' = mli
         /\ mli.max_memory_bytes = 0
         /\ sinkLog' = <<>>
         /\ upserts' = <<>>
         /\ mdMeta' = mdMeta
         /\ mdFile' = mdFile]_vars

\* an incremental run over a tree with files returned the no-op result
C23_Witness ==
    /\ run.kind = "index_changed"
    /\ run.result = "noop"
    /\ run.all_files # <<>>
    /\ mdFile # Absent

\* C24: a read that fails leaves the run in its loop and the store and its
\* file as they were, and the next incremental run, finding the file with the
\* mtime it had, has it among the changed files.
C24_ReadFailureRetried ==
    [][/\ run'.skipped # run.skipped /\ run'.skipped # {} =>
            /\ run'.phase = "processing"
            /\ mdMeta' = mdMeta
            /\ mdFile' = mdFile
       /\ (ScanStep /\ run.kind = "index_changed") =>
            \A e \in run.retry :
               diskMtime[e[1]] = e[2] =>
                  e[1] \in {run'.changed[i] : i \in DOMAIN run'.changed}]_vars

\* C25: an upsert that fails makes the flush that sent the batch raise, the
\* batch is not counted in total_batches, and the run does not end with its
\* count summary.
C25_SinkFailurePropagates ==
    \A i \in DOMAIN upserts :
       ~upserts[i].ok =>
          /\ sinkLog[upserts[i].call].raised
          /\ mli.total_batches < Len(sinkLog)
          /\ run.result # "summary"

\* C26 as stated: a run that has returned went through scanning, processing
\* and flushing and returned its count summary, and a run that has raised did
\* so in metadata.save().
C26_EveryRunPassesAllPhases ==
    /\ run.phase = "done" =>
          /\ run.phases = <<"scanning", "processing", "flushing", "done">>
          /\ run.result = "summary"
    /\ run.phase = "failed" => (mdLast.op = "save" /\ mdLast.raised)

\* C26: the phases of a run are visited in the order scanning, processing,
\* flushing; a run that went through the three returns its count summary
\* unless metadata.save() raises, and then index_changed raises.  A forced
\* index_all whose clear_collection fails returns the error message before
\* scanning, and an index_changed without changed files returns its no-op
\* result from scanning.  A file that could not be read or recorded never
\* makes the run raise.
C26_RunPhases ==
    LET full == <<"scanning", "processing", "flushing">> IN
    /\ run.phase \in {"scanning", "processing", "flushing"} =>
          \E n \in 1..3 : run.phases = SubSeq(full, 1, n) /\ run.phase = full[n]
    /\ run.phase = "done" =>
          \/ run.phases = Append(full, "done") /\ run.result = "summary"
                /\ (run.kind = "index_changed" => run.changed # <<>>)
          \/ run.phases = <<"scanning", "done">> /\ run.result = "noop"
                /\ run.kind = "index_changed" /\ run.changed = <<>>
          \/ run.phases = <<"done">> /\ run.result = "error" /\ run.kind = "index_all"
    /\ run.phase = "failed" =>
          /\ run.phases = Append(full, "failed")
          /\ run.kind = "index_changed"
          /\ run.result = "raised"
    /\ (mdLast.op = "save" /\ mdLast.raised) <=> run.phase = "failed"

\* a run with a file it could not read has raised in metadata.save()
C26_Witness ==
    /\ run.phase = "failed"
    /\ run.skipped # {}
    /\ Len(run.changed) = 2

\* the steps of an incremental run over n changed files, its last three in
\* the order given
StepsUpTo(n, last) == <<"load", "scan", "construct">> \o [i \in 1..n |-> "process"] \o last
IsPrefix(a, b) == Len(a) <= Len(b) /\ a = SubSeq(b, 1, Len(a))

\* C30 as stated: per-file processing, pruning, saving the metadata file,
\* and only then the final flush.
C30_FlushAfterSave ==
    (run.kind = "index_changed" /\ run.changed # <<>>) =>
        IsPrefix(run.steps, StepsUpTo(Len(run.changed), <<"prune", "save", "flush">>))

\* C30: in an incremental run with a changed file the steps are: per-file
\* processing with the updates of the store object, the final flush of the
\* batcher, pruning, and saving the metadata file last; when the file is
\* written the batcher is empty.
C30_FlushBeforeSave ==
    (run.kind = "index_changed" /\ run.changed # <<>>) =>
        /\ IsPrefix(run.steps, StepsUpTo(Len(run.changed), <<"flush", "prune", "save">>))
        /\ run.phase = "done" =>
              run.steps = StepsUpTo(Len(run.changed), <<"flush", "prune", "save">>)
        /\ (\E i \in DOMAIN run.steps : run.steps[i] = "save") => mli.documents = <<>>

\* the final flush sent a batch and the file was saved with a new record
C30_Witness ==
    /\ run.kind = "index_changed"
    /\ run.phase = "done"
    /\ run.result = "summary"
    /\ sinkLog # <<>>
    /\ ~sinkLog[Len(sinkLog)].auto
    /\ mdFile # run.beforeFile

(***************************************************************************)
(* One sequence of put and get calls and clock advances applied to two     *)
(* TTLCache objects (cache_manager.py:114-187): ttlCache, on which         *)
(* cleanup_expired is called in between at arbitrary points, and ref, on   *)
(* which it never is.  retsOk tells whether every get so far returned the  *)
(* same on both.                                                           *)
(***************************************************************************)
InitTwin ==
    /\ FilesIdle
    /\ AWIdle
    /\ LRUIdle
    /\ ThreadsIdle
    /\ ttlSeconds \in 0..MaxTtl
    /\ ttlMaxSize \in MaxSizeChoices
    /\ ttlCache = <<>>
    /\ ttlHits = 0
    /\ ttlMisses = 0
    /\ ttlExpirations = 0
    /\ now = 0
    /\ ttlLast = [op |-> "init", key |-> 0, val |-> None, ret |-> None]
    /\ ttlPutAt = [k \in Keys |-> -1]

\* the object the calls act on
TwinCache ==
    [cache |-> ttlCache, hits |-> ttlHits, misses |-> ttlMisses,
     expirations |-> ttlExpirations]

\* the call op(k, v) on both objects, or on the first only
TwinCall(op, k, v, both) ==
    LET a == TTLAtomic(TwinCache, op, k, v, now)
        b == TTLAtomic(ref, op, k, v, now)
    IN
    /\ ttlCache' = a.state.cache
    /\ ttlHits' = a.state.hits
    /\ ttlMisses' = a.state.misses
    /\ ttlExpirations' = a.state.expirations
    /\ ttlLast' = [op |-> op, key |-> k, val |-> v,
                   ret |-> IF op = "get" THEN a.ret ELSE None]
    /\ ref' = IF both THEN b.state ELSE ref
    /\ retsOk' = (retsOk /\ (both => a.ret = b.ret))
    /\ UNCHANGED <<ttlSeconds, ttlMaxSize, now, ttlPutAt, kind, lock, thr, opsStarted,
                   lastHolder, awVars, fileVars, lruVars>>

\* lines 145-149, on both objects
Twin_put(k, v) ==
    /\ k \in Keys
    /\ TwinCall("put", k, v, TRUE)

\* lines 124-135, on both objects
Twin_get(k) ==
    /\ ttlHits + ttlMisses < MaxGets
    /\ TTLAtomic(ref, "get", k, None, now).state.expirations <= MaxExpirations
    /\ TTLAtomic(TwinCache, "get", k, None, now).state.expirations <= MaxExpirations
    /\ TwinCall("get", k, None, TRUE)

\* lines 173-187, on the first object only
Twin_cleanup_expired ==
    /\ TTLAtomic(TwinCache, "cleanup_expired", 0, None, now).state.expirations
          <= MaxExpirations
    /\ TwinCall("cleanup_expired", 0, None, FALSE)

NextTwin ==
    \/ Tick
    \/ \E k \in Keys, v \in Values : Twin_put(k, v)
    \/ \E k \in Keys : Twin_get(k)
    \/ Twin_cleanup_expired

SpecTwin == InitTwin /\ [][NextTwin]_vars

\* C31: whatever cleanup_expired calls are inserted into a sequence of put
\* and get calls and clock advances, every get returns what it returns
\* without them.
C31_CleanupChangesNoGet == retsOk

(***************************************************************************)
(* FileCache called by several threads.  FileCache.lock is `lock`, the     *)
(* lock of the LRUCache inside it is lruLock.  thr[t].pc is the method     *)
(* thread t is in, thr[t].todo the steps it has left, thr[t].tmp the mtime *)
(* its stat() returned.                                                    *)
(***************************************************************************)
InitFCLocks ==
    /\ AWIdle
    /\ TTLIdle
    /\ MDIdle
    /\ MLIIdle
    /\ CfgIdle
    /\ RunIdle
    /\ StoreIdle
    /\ FCIdle
    /\ diskMtime \in [FilePaths -> {1, StatFails}]
    /\ lruCapacity \in 0..1
    /\ lruCache = <<>>
    /\ lruHits = 0
    /\ lruMisses = 0
    /\ lruLast = [op |-> "init", key |-> 0, val |-> None, ret |-> None]
    /\ lruTouch = <<>>
    /\ kind = "file"
    /\ lock = 0
    /\ thr = [t \in Threads |-> IdleThread]
    /\ opsStarted = 0
    /\ lastHolder = 0
    /\ ref = [cache |-> <<>>, hits |-> 0, misses |-> 0, expirations |-> 0]
    /\ retsOk = TRUE

\* a get_stats that takes FileCache.lock while it holds the inner lock
FC_ProgramStatsLocksOuter(op) ==
    CASE op = "get" -> <<"stat", "lock", "check", "unlock">>
      [] op = "put" -> <<"stat", "lock", "lru_lock", "lru", "lru_unlock", "mtime", "unlock">>
      [] op = "clear" -> <<"lock", "lru_lock", "lru", "lru_unlock", "mtime", "unlock">>
      [] op = "get_stats" -> <<"lru_lock", "lock", "lru", "unlock", "lru_unlock">>

\* the steps of each method in the order the code takes them: the stat() before
\* the with-block, `with self.lock:`, the LRUCache call (itself a with-block
\* on the inner lock), the write of mtime_cache, the end of the with-block
FC_Program(op) ==
    CASE op = "get" -> <<"stat", "lock", "check", "unlock">>
      [] op = "put" -> <<"stat", "lock", "lru_lock", "lru", "lru_unlock", "mtime", "unlock">>
      [] op = "clear" -> <<"lock", "lru_lock", "lru", "lru_unlock", "mtime", "unlock">>
      [] op = "get_stats" -> <<"lru_lock", "lru", "lru_unlock">>

FC_Ops == {"get", "put", "clear", "get_stats"}

\* thread t is about to take step label
FC_At(t, label) ==
    /\ thr[t].pc \in FC_Ops
    /\ thr[t].todo # <<>>
    /\ Head(thr[t].todo) = label

\* thread t goes on with the steps rest; with none left its call returns
FC_Continue(t, rest) ==
    thr' = [thr EXCEPT ![t] = IF rest = <<>> THEN IdleThread ELSE [@ EXCEPT !.todo = rest]]

\* a thread calls a method of the shared FileCache
FC_call(t, op, p, v) ==
    /\ thr[t].pc = "idle"
    /\ opsStarted < MaxOps
    /\ opsStarted' = opsStarted + 1
    /\ thr' = [thr EXCEPT ![t] = [IdleThread EXCEPT !.pc = op, !.key = p, !.val = v,
                                                    !.todo = FC_Program(op)]]
    /\ UNCHANGED <<lock, lruLock, lruState, fcMtime, kind, lastHolder, ref, retsOk, fcLast,
                   fcPut, diskMtime, vs, lruFrozen, awVars, ttlVars, mdVars, mliVars,
                   cfgVars, runVars>>

\* lines 239, 264: stat(); its exception ends the call in the except clause
FC_stat(t) ==
    /\ FC_At(t, "stat")
    /\ IF StatOk(diskMtime[thr[t].key])
       THEN thr' = [thr EXCEPT ![t].tmp = diskMtime[thr[t].key], ![t].todo = Tail(@)]
       ELSE thr' = [thr EXCEPT ![t] = IdleThread]
    /\ UNCHANGED <<lock, lruLock, lruState, fcMtime, kind, opsStarted, lastHolder, ref,
                   retsOk, fcLast, fcPut, diskMtime, vs, lruFrozen, awVars, ttlVars, mdVars,
                   mliVars, cfgVars, runVars>>

\* lines 241, 266, 274: `with self.lock:` is entered
FC_lock(t) ==
    /\ FC_At(t, "lock")
    /\ LockFree(lock)
    /\ lock' = t
    /\ FC_Continue(t, Tail(thr[t].todo))
    /\ UNCHANGED <<lruLock, lruState, fcMtime, kind, opsStarted, lastHolder, ref, retsOk,
                   fcLast, fcPut, diskMtime, vs, lruFrozen, awVars, ttlVars, mdVars, mliVars,
                   cfgVars, runVars>>

\* lines 242-250: the LRUCache is asked only when the recorded mtime matches
FC_check(t) ==
    /\ FC_At(t, "check")
    /\ FC_Continue(t, IF MtimeMatches(fcMtime[thr[t].key], thr[t].tmp)
                      THEN <<"lru_lock", "lru", "lru_unlock", "unlock">>
                      ELSE <<"unlock">>)
    /\ UNCHANGED <<lock, lruLock, lruState, fcMtime, kind, opsStarted, lastHolder, ref,
                   retsOk, fcLast, fcPut, diskMtime, vs, lruFrozen, awVars, ttlVars, mdVars,
                   mliVars, cfgVars, runVars>>

\* lines 41, 56, 71, 82: `with self.lock:` of the LRUCache is entered
FC_lru_lock(t) ==
    /\ FC_At(t, "lru_lock")
    /\ LockFree(lruLock)
    /\ lruLock' = t
    /\ FC_Continue(t, Tail(thr[t].todo))
    /\ UNCHANGED <<lock, lruState, fcMtime, kind, opsStarted, lastHolder, ref, retsOk,
                   fcLast, fcPut, diskMtime, vs, lruFrozen, awVars, ttlVars, mdVars, mliVars,
                   cfgVars, runVars>>

\* the body of the LRUCache method; the StopIteration of a put into a cache of
\* capacity 0 leaves both with-blocks and skips the write of mtime_cache
FC_lru(t) ==
    /\ FC_At(t, "lru")
    /\ LET r == LRUAtomic([cache |-> lruCache, hits |-> lruHits, misses |-> lruMisses],
                          thr[t].pc, thr[t].key, thr[t].val)
           raises == thr[t].pc = "put" /\ LRUPutRaises(lruCache, lruCapacity, thr[t].key)
       IN /\ lruCache' = r.state.cache
          /\ lruHits' = r.state.hits
          /\ lruMisses' = r.state.misses
          /\ FC_Continue(t, IF raises
                            THEN SelectSeq(Tail(thr[t].todo), LAMBDA l : l # "mtime")
                            ELSE Tail(thr[t].todo))
    /\ UNCHANGED <<lock, lruLock, fcMtime, kind, opsStarted, lastHolder, ref, retsOk,
                   fcLast, fcPut, diskMtime, vs, lruFrozen, awVars, ttlVars, mdVars, mliVars,
                   cfgVars, runVars>>

\* the with-block of the LRUCache is left, by return or by exception
FC_lru_unlock(t) ==
    /\ FC_At(t, "lru_unlock")
    /\ lruLock' = 0
    /\ FC_Continue(t, Tail(thr[t].todo))
    /\ UNCHANGED <<lock, lruState, fcMtime, kind, opsStarted, lastHolder, ref, retsOk,
                   fcLast, fcPut, diskMtime, vs, lruFrozen, awVars, ttlVars, mdVars, mliVars,
                   cfgVars, runVars>>

\* lines 268, 276: mtime_cache is written under FileCache.lock
FC_mtime(t) ==
    /\ FC_At(t, "mtime")
    /\ fcMtime' = IF thr[t].pc = "put"
                  THEN [fcMtime EXCEPT ![thr[t].key] = thr[t].tmp]
                  ELSE [p \in FilePaths |-> NoMtime]
    /\ FC_Continue(t, Tail(thr[t].todo))
    /\ UNCHANGED <<lock, lruLock, lruState, kind, opsStarted, lastHolder, ref, retsOk,
                   fcLast, fcPut, diskMtime, vs, lruFrozen, awVars, ttlVars, mdVars, mliVars,
                   cfgVars, runVars>>

\* the with-block of the FileCache is left, by return or by exception
FC_unlock(t) ==
    /\ FC_At(t, "unlock")
    /\ lock' = 0
    /\ FC_Continue(t, Tail(thr[t].todo))
    /\ UNCHANGED <<lruLock, lruState, fcMtime, kind, opsStarted, lastHolder, ref, retsOk,
                   fcLast, fcPut, diskMtime, vs, lruFrozen, awVars, ttlVars, mdVars, mliVars,
                   cfgVars, runVars>>

\* the steps thread t takes once its call has started
FC_step(t) ==
    \/ FC_stat(t)
    \/ FC_lock(t)
    \/ FC_check(t)
    \/ FC_lru_lock(t)
    \/ FC_lru(t)
    \/ FC_lru_unlock(t)
    \/ FC_mtime(t)
    \/ FC_unlock(t)

NextFCLocks ==
    \/ \E t \in Threads, p \in FilePaths : FC_call(t, "get", p, None)
    \/ \E t \in Threads, p \in FilePaths, v \in Values : FC_call(t, "put", p, v)
    \/ \E t \in Threads, op \in {"clear", "get_stats"} : FC_call(t, op, 0, None)
    \/ \E t \in Threads : FC_stat(t)
    \/ \E t \in Threads : FC_lock(t)
    \/ \E t \in Threads : FC_check(t)
    \/ \E t \in Threads : FC_lru_lock(t)
    \/ \E t \in Threads : FC_lru(t)
    \/ \E t \in Threads : FC_lru_unlock(t)
    \/ \E t \in Threads : FC_mtime(t)
    \/ \E t \in Threads : FC_unlock(t)

SpecFCLocks == InitFCLocks /\ [][NextFCLocks]_vars

\* every thread that can take a step is eventually run by the scheduler
FairSpecFCLocks == SpecFCLocks /\ \A t \in Threads : WF_vars(FC_step(t))

\* C32: every call of get, put, clear or get_stats that a thread has started
\* on the shared FileCache returns, whatever the other threads do: no thread
\* waits for a lock for ever.
C32_EveryCallReturns ==
    \A t \in Threads : (thr[t].pc # "idle") ~> (thr[t].pc = "idle")

\* a thread inside FileCache.lock waits for the inner lock, which a get_stats
\* of the other thread holds
C32_Witness ==
    \E t \in Threads, u \in Threads :
        /\ t # u
        /\ FC_At(t, "lru_lock")
        /\ lock = t
        /\ lruLock = u
        /\ thr[u].pc = "get_stats"

(***************************************************************************)
(* IndexMetadata.save called by several savers: save is json.dumps         *)
(* followed by atomic_write(INDEX_METADATA_FILE, content) (lines 106-107), *)
(* so each writer of SpecAW is one saver; save takes no lock.              *)
(***************************************************************************)

\* C33: two savers of the metadata file never perform their writes at the
\* same time: at most one saver is between the creation of its temp file and
\* the end of its atomic_write.
C33_SaversWriteOneAtATime ==
    Cardinality({w \in Writers : awpc[w] \notin {"idle", "returned", "raised"}}) <= 1

(***************************************************************************)
(* What reaches the sink of a MemoryLimitedIndexer, and what the upsert    *)
(* callback makes of a batch.                                              *)
(***************************************************************************)
RECURSIVE Flatten(_)
Flatten(seqs) == IF seqs = <<>> THEN <<>> ELSE Head(seqs) \o Flatten(Tail(seqs))

\* the chunks handed over so far followed by the buffered ones, by field
Stream(field) ==
    CASE field = "documents" ->
           Flatten([i \in DOMAIN sinkLog |-> sinkLog[i].documents]) \o mli.documents
      [] field = "metadatas" ->
           Flatten([i \in DOMAIN sinkLog |-> sinkLog[i].metadatas]) \o mli.metadatas
      [] field = "ids" ->
           Flatten([i \in DOMAIN sinkLog |-> sinkLog[i].ids]) \o mli.ids

\* slice lengths that split the batches of this model, and the configured one
SliceSizes == {1, 2, BATCH_SIZE}

\* a batch longer than two slices of the configured length
LongBatch == [i \in 1..(2 * BATCH_SIZE + 1) |-> <<"id", i, 1>>]

\* C34: as long as no sink call has failed, every add_chunk appends its
\* (document, metadata, id) triple to the sequence formed by the batches
\* passed to the sink, in call order, followed by the buffer; a flush leaves
\* that sequence as it is and empties the buffer, so after a flush the
\* concatenated batches are the added triples in add order.  The slices the
\* upsert callback makes of a batch, concatenated, are the batch, and none is
\* longer than the slice length.
C34_EveryChunkDeliveredOnce ==
    [][(\A i \in DOMAIN sinkLog' : ~sinkLog'[i].raised) =>
         /\ mliAdds' = mliAdds + 1 =>
               /\ Stream("documents")' =
                     Append(Stream("documents"), <<"doc", mliAdds', mliLast'.size - 2>>)
               /\ Stream("metadatas")' = Append(Stream("metadatas"), <<"meta", mliAdds', 1>>)
               /\ Stream("ids")' = Append(Stream("ids"), <<"id", mliAdds', 1>>)
         /\ mliAdds' = mliAdds =>
               /\ \A f \in {"documents", "metadatas", "ids"} : Stream(f)' = Stream(f)
               /\ mli'.documents = <<>>
               /\ Len(Stream("ids")') = mliAdds
         /\ \A c \in ({sinkLog'[i].ids : i \in DOMAIN sinkLog'} \X SliceSizes)
                       \cup {<<LongBatch, BATCH_SIZE>>} :
               /\ Flatten(Slices(c[1], c[2])) = c[1]
               /\ \A k \in DOMAIN Slices(c[1], c[2]) : Len(Slices(c[1], c[2])[k]) \in 1..c[2]
      ]_vars

\* three chunks were added and flushed in two batches, one of them of two
\* chunks, and no sink call failed
C34_Witness ==
    /\ mliAdds = 3
    /\ mliLast.op = "flush"
    /\ Len(sinkLog) = 2
    /\ \A i \in DOMAIN sinkLog : ~sinkLog[i].raised
    /\ \E i \in DOMAIN sinkLog : Len(sinkLog[i].ids) = 2

\* C36: after every add_chunk that returned normally, current_memory is at
\* most max_memory_bytes or the buffer holds exactly one chunk.
C36_OverBudgetOnlyAlone ==
    (mliLast.op = "add_chunk" /\ ~mliLast.raised) =>
        \/ mli.current_memory <= mli.max_memory_bytes
        \/ Len(mli.documents) = 1

\* an add_chunk flushed the buffer and then buffered a chunk larger than the
\* budget
C36_Witness ==
    /\ mliLast.op = "add_chunk"
    /\ ~mliLast.raised
    /\ mliLast.called
    /\ Len(mli.documents) = 1
    /\ mli.current_memory > mli.max_memory_bytes

\* C35: when an incremental run has saved the store and returned, every
\* file whose record the run wrote has each of its chunks in an upsert call
\* that succeeded.
C35_RecordedFilesFullyStored ==
    (run.kind = "index_changed" /\ run.phase = "done" /\ run.result = "summary") =>
        \A p \in FilePaths :
            (p \in DictKeys(mdMeta) /\ EntryOf(mdMeta, p) # EntryOf(run.before, p)) =>
                \A i \in DOMAIN upserts :
                    (\E j \in DOMAIN upserts[i].ids : upserts[i].ids[j][2] \div 10 = p)
                        => upserts[i].ok

(***************************************************************************)
(* safe_read_text while other programs write the files.  thr[1] is the     *)
(* caller: its pc is the statement it is at, its key the path, its val the *)
(* content it has read.  A file's content is named after the mtime the     *)
(* write that produced it left.                                            *)
(***************************************************************************)
FILE_CACHE_CAPACITY == 50

\* what a file written at mtime m holds
ContentAt(m) == CASE m = 0 -> "c0" [] m = 1 -> "c1" [] m = 2 -> "c2"

InitRead ==
    /\ AWIdle
    /\ TTLIdle
    /\ MDIdle
    /\ MLIIdle
    /\ CfgIdle
    /\ RunIdle
    /\ StoreIdle
    /\ FCIdle
    /\ diskMtime = [p \in FilePaths |-> 0]
    /\ lruCapacity = FILE_CACHE_CAPACITY
    /\ lruCache = <<>>
    /\ lruHits = 0
    /\ lruMisses = 0
    /\ lruLast = [op |-> "init", key |-> 0, val |-> None, ret |-> None]
    /\ lruTouch = <<>>
    /\ kind = "file"
    /\ lock = 0
    /\ thr = [t \in Threads |-> IdleThread]
    /\ opsStarted = 0
    /\ lastHolder = 0
    /\ ref = [cache |-> <<>>, hits |-> 0, misses |-> 0, expirations |-> 0]
    /\ retsOk = TRUE

\* another program writes the file: new content, later mtime
FileWritten(p, m) ==
    /\ StatOk(diskMtime[p])
    /\ m > diskMtime[p]
    /\ diskMtime' = [diskMtime EXCEPT ![p] = m]
    /\ UNCHANGED <<awVars, lruVars, ttlVars, thVars, extVars, fcVars, mdVars, mliVars>>

\* another program removes the file
FileRemoved(p) ==
    /\ StatOk(diskMtime[p])
    /\ diskMtime' = [diskMtime EXCEPT ![p] = StatFails]
    /\ UNCHANGED <<awVars, lruVars, ttlVars, thVars, extVars, fcVars, mdVars, mliVars>>

\* config.py lines 289-291: _file_cache.get(file_path), as FileCache.get does
\* it (cache_manager.py:237-252); a hit is returned
safe_read_text_get(p) ==
    LET looked == StatOk(diskMtime[p]) /\ MtimeMatches(fcMtime[p], diskMtime[p])
        r == LRUAtomic([cache |-> lruCache, hits |-> lruHits, misses |-> lruMisses],
                       "get", p, None)
        hit == looked /\ r.ret # None
    IN
    /\ thr[1].pc = "idle"
    /\ opsStarted < MaxOps
    /\ opsStarted' = opsStarted + 1
    /\ IF looked
       THEN /\ lruCache' = r.state.cache
            /\ lruHits' = r.state.hits
            /\ lruMisses' = r.state.misses
       ELSE UNCHANGED lruState
    /\ fcLast' = [op |-> "safe_read_text", key |-> p,
                  ret |-> IF hit THEN r.ret ELSE None, raised |-> FALSE]
    /\ thr' = IF hit THEN thr
              ELSE [thr EXCEPT ![1] = [IdleThread EXCEPT !.pc = "read_text", !.key = p]]
    /\ UNCHANGED <<fcMtime, fcPut, diskMtime, lruFrozen, awVars, ttlVars, kind, lock,
                   lastHolder, ref, retsOk, extVars, mdVars, mliVars>>

\* line 297: file_path.read_text(); what it raises for a missing file leaves
\* safe_read_text as OSError (lines 302-303)
safe_read_text_read ==
    LET p == thr[1].key IN
    /\ thr[1].pc = "read_text"
    /\ IF StatOk(diskMtime[p])
       THEN /\ thr' = [thr EXCEPT ![1].pc = "put", ![1].val = ContentAt(diskMtime[p])]
            /\ UNCHANGED fcLast
       ELSE /\ thr' = [thr EXCEPT ![1] = IdleThread]
            /\ fcLast' = [op |-> "safe_read_text", key |-> p, ret |-> None, raised |-> TRUE]
    /\ UNCHANGED <<fcMtime, fcPut, diskMtime, lruVars, awVars, ttlVars, kind, lock,
                   opsStarted, lastHolder, ref, retsOk, extVars, mdVars, mliVars>>

\* lines 298-299: _file_cache.put(file_path, content), as FileCache.put does
\* it (cache_manager.py:262-270: stat, then the two tables), and the return
safe_read_text_put ==
    LET p == thr[1].key
        content == thr[1].val
        stored == StatOk(diskMtime[p]) /\ ~LRUPutRaises(lruCache, lruCapacity, p)
    IN
    /\ thr[1].pc = "put"
    /\ lruCache' = IF stored THEN LRUPutResult(lruCache, lruCapacity, p, content)
                   ELSE lruCache
    /\ fcMtime' = IF stored THEN [fcMtime EXCEPT ![p] = diskMtime[p]] ELSE fcMtime
    /\ fcPut' = IF stored THEN [fcPut EXCEPT ![p] = <<diskMtime[p], content>>] ELSE fcPut
    /\ fcLast' = [op |-> "safe_read_text", key |-> p, ret |-> content, raised |-> FALSE]
    /\ thr' = [thr EXCEPT ![1] = IdleThread]
    /\ UNCHANGED <<lruHits, lruMisses, diskMtime, lruFrozen, awVars, ttlVars, kind, lock,
                   opsStarted, lastHolder, ref, retsOk, extVars, mdVars, mliVars>>

NextRead ==
    \/ \E p \in FilePaths, m \in Mtimes : FileWritten(p, m)
    \/ \E p \in FilePaths : FileRemoved(p)
    \/ \E p \in FilePaths : safe_read_text_get(p)
    \/ safe_read_text_read
    \/ safe_read_text_put

SpecRead == InitRead /\ [][NextRead]_vars

\* C37: the content the file cache holds for a path under a recorded mtime
\* is the content the file held at that mtime, whenever other programs write
\* the file; so a content served from the cache is what the file holds at
\* its current mtime.
C37_CachedContentIsOfItsMtime ==
    \A p \in FilePaths :
        (fcMtime[p] # NoMtime /\ p \in DictKeys(lruCache)) =>
            DictGet(lruCache, p) = ContentAt(fcMtime[p])

\* C39: an incremental run that follows an incremental run which saved,
\* with no change of the tree in between, reports as changed none of the
\* files the first run listed and read without error, whatever they hold.
C39_SecondRunFindsNothing ==
    (run.kind = "index_changed" /\ run.phase \notin {"idle", "scanning"}) =>
        {run.changed[i] : i \in DOMAIN run.changed} \cap run.prevOk = {}

(***************************************************************************)
(* Incremental runs over a tree that other programs write while the run    *)
(* processes its files.                                                    *)
(***************************************************************************)
InitRunRace ==
    /\ InitRun
    /\ platform = "posix"
    /\ mdFile = Absent

\* another program writes file p while the run is in its loop over the files
FileWrittenDuringRun(p, m) ==
    /\ run.phase = "processing"
    /\ StatOk(diskMtime[p])
    /\ m > diskMtime[p]
    /\ diskMtime' = [diskMtime EXCEPT ![p] = m]
    /\ UNCHANGED <<run, upserts, mliVars, mdVars, cfgVars, storeVars, awVars, lruVars,
                   ttlVars, thVars, fcVars>>

NextRunRace ==
    \/ index_changed_begin
    \/ \E b \in BudgetChoices : scan_indexable_files(b)
    \/ \E outcome \in ReadOutcomes : process_file_read(outcome)
    \/ \E ok \in BOOLEAN : process_file_chunk(ok)
    \/ process_file_end
    \/ process_loop_end
    \/ \E ok \in BOOLEAN : index_flush(ok)
    \/ index_changed_prune
    \/ index_changed_save
    \/ index_changed_save_raise
    \/ index_return
    \/ \E p \in FilePaths, m \in RunMtimes : FileWrittenDuringRun(p, m)

SpecRunRace == InitRunRace /\ [][NextRunRace]_vars

\* C38: the mtime an incremental run records for a file is never newer than
\* the mtime the file had when the run read the content it indexed, so a
\* write that follows the read is seen by the next run.
C38_RecordedMtimeIsOfTheRead ==
    \A i \in DOMAIN run.readAt :
        LET p == run.readAt[i][1] IN
        (p \in DictKeys(mdMeta) /\ EntryOf(mdMeta, p) # EntryOf(run.before, p)) =>
            DictGet(mdMeta, p)[1] <= run.readAt[i][2]

(***************************************************************************)
(* VectorStoreManager: the collection, and the TTLCache in front of query. *)
(* vs.collection is the set of ids stored; ttlCache is _query_cache.  A    *)
(* query is named by its parameters and _generate_cache_key gives equal    *)
(* keys to equal parameters only.                                          *)
(***************************************************************************)
QUERY_CACHE_TTL == 300
QUERY_CACHE_MAX_SIZE == 100

\* the parameter combinations asked, and the id lists upserted
Queries == {<<"alpha", 5>>, <<"beta", 5>>}
IdLists == {<<1>>, <<2>>, <<1, 2>>}

\* lines 163-189: the digest of the parameters, one key per combination
generate_cache_key(q) == IF q = <<"alpha", 5>> THEN 1 ELSE 2

\* line 149: what coll.query answers for a collection holding the ids c
QueryResult(c) ==
    CASE c = {} -> "none" [] c = {1} -> "doc1" [] c = {2} -> "doc2" [] c = {1, 2} -> "doc1+doc2"

InitStore ==
    /\ FilesIdle
    /\ AWIdle
    /\ LRUIdle
    /\ ThreadsIdle
    /\ ttlSeconds = QUERY_CACHE_TTL
    /\ ttlMaxSize = QUERY_CACHE_MAX_SIZE
    /\ ttlCache = <<>>
    /\ ttlHits = 0
    /\ ttlMisses = 0
    /\ ttlExpirations = 0
    /\ now = 0
    /\ ttlLast = [op |-> "init", key |-> 0, val |-> None, ret |-> None]
    /\ ttlPutAt = [k \in Keys |-> -1]

QueryCache ==
    [cache |-> ttlCache, hits |-> ttlHits, misses |-> ttlMisses,
     expirations |-> ttlExpirations]

\* time passes between two calls: a second, or the lifetime of a cache entry
ClockAdvances(d) ==
    /\ IF d = 1 THEN now % QUERY_CACHE_TTL < MaxTime ELSE now < QUERY_CACHE_TTL
    /\ now' = now + d
    /\ UNCHANGED <<ttlSeconds, ttlMaxSize, ttlCache, ttlHits, ttlMisses, ttlExpirations,
                   ttlLast, ttlPutAt, awVars, fileVars, lruVars, thVars>>

\* lines 121-161; available: get_collection() gives a collection and
\* coll.query does not raise
VectorStoreManager_query(q, available) ==
    LET cache_key == generate_cache_key(q)
        g == TTLAtomic(QueryCache, "get", cache_key, None, now)
        result == QueryResult(vs.collection)
        after == IF g.ret # None \/ ~available THEN g.state
                 ELSE TTLAtomic(g.state, "put", cache_key, result, now).state
    IN
    /\ ttlHits + ttlMisses < MaxOps
    /\ ttlCache' = after.cache
    /\ ttlHits' = after.hits
    /\ ttlMisses' = after.misses
    /\ ttlExpirations' = after.expirations
    /\ vs' = [vs EXCEPT !.last = [op |-> "query", hit |-> g.ret # None,
                                  ret |-> IF g.ret # None THEN g.ret
                                          ELSE IF available THEN result ELSE None]]
    /\ UNCHANGED <<ttlSeconds, ttlMaxSize, now, ttlLast, ttlPutAt, lruLock, cfgVars, runVars,
                   diskMtime, fcVars, mdVars, mliVars, awVars, lruVars, thVars>>

\* lines 200-230; ok: get_collection() gives a collection and coll.upsert
\* does not raise
VectorStoreManager_upsert(ids, ok) ==
    /\ vs' = [collection |-> IF ok THEN vs.collection \cup {ids[i] : i \in DOMAIN ids}
                             ELSE vs.collection,
              last |-> [op |-> "upsert", hit |-> FALSE, ret |-> IF ok THEN "True" ELSE "False"]]
    /\ UNCHANGED <<ttlVars, lruLock, cfgVars, runVars, diskMtime, fcVars, mdVars, mliVars,
                   awVars, lruVars, thVars>>

\* lines 81-102; ok: the client exists and neither delete_collection nor
\* get_or_create_collection raises
VectorStoreManager_clear_collection(ok) ==
    /\ vs' = [collection |-> IF ok THEN {} ELSE vs.collection,
              last |-> [op |-> "clear_collection", hit |-> FALSE,
                        ret |-> IF ok THEN None ELSE "error"]]
    /\ UNCHANGED <<ttlVars, lruLock, cfgVars, runVars, diskMtime, fcVars, mdVars, mliVars,
                   awVars, lruVars, thVars>>

NextStore ==
    \/ \E d \in {1, QUERY_CACHE_TTL} : ClockAdvances(d)
    \/ \E q \in Queries, available \in BOOLEAN : VectorStoreManager_query(q, available)
    \/ \E ids \in IdLists, ok \in BOOLEAN : VectorStoreManager_upsert(ids, ok)
    \/ \E ok \in BOOLEAN : VectorStoreManager_clear_collection(ok)

SpecStore == InitStore /\ [][NextStore]_vars

\* C40: a query answered from the query cache returns what the collection
\* answers now: no result cached before an upsert or a clear_collection
\* changed the collection is served after it.
C40_CachedResultIsCurrent ==
    (vs.last.op = "query" /\ vs.last.hit) => vs.last.ret = QueryResult(vs.collection)
====
